---- MODULE Spec2Model ----
(***************************************************************************)
(* A state-machine model of the reactive data manager of                   *)
(* src/src/active-data.js (class Manager).                                 *)
(*                                                                         *)
(* One Manager, one observed record d with the data keys a, b, c and two   *)
(* slots k1, k2 for computed properties, and up to two reactions.  User    *)
(* functions are small programs (sequences of reads through the wrapper    *)
(* and writes through the wrapper); the engine's handlers are translated   *)
(* from the source and run them one instruction at a time, so that nested  *)
(* calls (a derivation demanding a computed property, a write starting a   *)
(* reaction pass, a reaction pass calling reactions) are frames of the     *)
(* control stack ctl.  JavaScript is single threaded: while ctl is not     *)
(* empty only the step of its top frame is enabled.                        *)
(***************************************************************************)
EXTENDS Integers, Sequences, FiniteSets, TLC

\* src/src/active-data.js:1
maxIterations == 10

\* Bounds of the model: the number of top-level operations of the user, in
\* Spec (MaxOps), in PureSpec (MaxOpsPure), in LiveSpec (MaxOpsLive) and in
\* CrossSpec (MaxOpsCross), in ProtoSpec (MaxOpsProto), in WatchSpec
\* (MaxOpsWatch), in WrapSpec (MaxOpsWrap), in FailSpec (MaxOpsFail) and in
\* ForkSpec (MaxOpsFork), and in NestSpec (MaxOpsNest).
MaxOps == 3
MaxOpsPure == 5
MaxOpsLive == 3
MaxOpsCross == 3
MaxOpsProto == 3
MaxOpsWatch == 3
MaxOpsWrap == 3
MaxOpsFail == 4
MaxOpsFork == 4
MaxOpsNest == 3

-----------------------------------------------------------------------------
(* The universe: values, keys, functions *)

Vals == {0, 1}
DataKeys == {"a", "b", "c"}
CompKeys == {"k1", "k2"}
Reactions == {"r1", "r2"}
Upd == CompKeys \cup Reactions
Sources == {"d"}
watchKey == "$$watch"
watchDeepKey == "$$watchDeep"
Keys == DataKeys \cup CompKeys \cup {watchKey}
Objs == {"g", "p", "c"}
HKeys == {"a", "b", "length"}
NoObj == "-"
NoKey == "-"
NoFn == "-"
NoUpd == "-"

\* JavaScript's undefined and NaN, kept apart from the numbers >= 0
Undef == 0 - 1
NaN == 0 - 2

\* null, the value of a key a record does not have, and a function
Null == 0 - 3
Absent == 0 - 4
Callable == 0 - 5

\* the records g, p, c as values, and the wrappers (Proxy objects) by the
\* order of their allocation
ObjIdx(o) == CASE o = "g" -> 0 [] o = "p" -> 1 [] OTHER -> 2
Ref(o) == 10 + ObjIdx(o)
IsRef(v) == v \in 10..12
ObjOf(v) == CASE v = 10 -> "g" [] v = 11 -> "p" [] OTHER -> "c"
Wrapper(id) == 20 + id
IsWrapper(v) == v > 20

\* typeof v === "object"
IsObject(v) == v = Null \/ IsRef(v) \/ IsWrapper(v)

\* x + y of JavaScript on numbers and undefined
Plus(x, y) == IF x < 0 \/ y < 0 THEN NaN ELSE x + y

\* the truthiness of a number (undefined and NaN are falsy)
Truthy(x) == x > 0

\* d.a + 2 of the self-looping reaction of the tests: always another value
Inc(x) == IF x < 0 THEN NaN ELSE (x + 1) % 2

\* instructions of the user functions
Get(k) == [op |-> "get", obj |-> "d", key |-> k, cond |-> FALSE, val |-> 0]
GetIf(k) == [op |-> "get", obj |-> "d", key |-> k, cond |-> TRUE, val |-> 0]
SetInc(k) == [op |-> "setinc", obj |-> "d", key |-> k, cond |-> FALSE, val |-> 0]
SetAcc(k) == [op |-> "setacc", obj |-> "d", key |-> k, cond |-> FALSE, val |-> 0]
Put(k, v) == [op |-> "put", obj |-> "d", key |-> k, cond |-> FALSE, val |-> v]
ThrowIf == [op |-> "throw", obj |-> "d", key |-> NoKey, cond |-> TRUE, val |-> 0]
\* a call of the Manager made by a user function or a batch action:
\* run(), runDeferred(), or reaction(f)
Call(op, f) == [op |-> op, obj |-> "d", key |-> f, cond |-> FALSE, val |-> 0]
GetAt(o, k) == [op |-> "getAt", obj |-> o, key |-> k, cond |-> FALSE, val |-> 0]
GetAtIf(o, k) == [op |-> "getAt", obj |-> o, key |-> k, cond |-> TRUE, val |-> 0]

Fns == {"cond", "via", "loop", "copy"}
PureFns == {"cond", "via"}
CrossFns == {"cond", "via", "ring", "self"}
ProtoFns == {"inherit", "either"}
WatchFns == {"watch", "deep", "len"}
FailFns == {"fail", "via"}
ForkFns == {"fork", "fork2"}
NestFns == {"cond", "rerun", "resched"}
AllFns ==
    Fns \cup CrossFns \cup ProtoFns \cup WatchFns \cup FailFns \cup ForkFns \cup NestFns

\* The user functions:
\*   cond   self => (self.a ? self.a + self.b : self.a) + self.c
\*   via    self => self.k1 + self.c
\*   loop   () => d.a = d.a + 2          (test "... reaction function - negative")
\*   copy   () => d.b = d.a
\*   ring   self => self.k2 + self.a      (test "Cross reference inside ...")
\*   self   self => self.k1 + self.a
\*   fail   self => { const x = self.a ? self.a + self.b : self.a;
\*                    if (x > 1) throw new Error("fail"); return x }
\*   fork   () => d.k2        (test "Forked call stack and invalidation")
\*   fork2  () => d.k2
\*   rerun    () => { const x = d.a; m.run(); d.b = x }
\*   resched  () => { const x = d.a; m.runDeferred(); d.c = x }
\* and, with the wrappers $g, $p, $c of the records g, p, c:
\*   inherit  () => $c.a
\*   either   () => (d.a ? $p.a : 0) + $c.a + $c.b
\*   watch    () => (d.a ? $c.a + $c.b : 0) + $g.$$watch
\*   deep     () => $g.$$watchDeep          (test "Deep watch")
\*   len      () => $c.length
Prog(f) ==
    CASE f = "cond" -> << Get("a"), GetIf("b"), Get("c") >>
      [] f = "via" -> << Get("k1"), Get("c") >>
      [] f = "loop" -> << Get("a"), SetInc("a") >>
      [] f = "copy" -> << Get("a"), SetAcc("b") >>
      [] f = "ring" -> << Get("k2"), Get("a") >>
      [] f = "self" -> << Get("k1"), Get("a") >>
      [] f = "fail" -> << Get("a"), GetIf("b"), ThrowIf >>
      [] f \in {"fork", "fork2"} -> << Get("k2") >>
      [] f = "rerun" -> << Get("a"), Call("run", NoFn), SetAcc("b") >>
      [] f = "resched" -> << Get("a"), Call("runDeferred", NoFn), SetAcc("c") >>
      [] f = "inherit" -> << GetAt("c", "a") >>
      [] f = "either" ->
            << Get("a"), GetAtIf("p", "a"), GetAt("c", "a"), GetAt("c", "b") >>
      [] f = "watch" ->
            << Get("a"), GetAtIf("c", "a"), GetAtIf("c", "b"), GetAt("g", watchKey) >>
      [] f = "deep" -> << GetAt("g", watchDeepKey) >>
      [] f = "len" -> << GetAt("c", "length") >>
      [] OTHER -> << >>

\* The batch actions handed to run(action) and runDeferred(action): none
\* (the empty sequence), one write, or two writes as in the tests.
Actions == {<< >>, << Put("a", 1) >>, << Put("a", 0), Put("b", 1) >>}

\* The batch actions that call the Manager before they write:
\*   () => { m.run(); d.a = 0 }, () => { m.runDeferred(); d.a = 0 },
\*   () => { m.reaction(cond); d.a = 0 }
NestActions ==
    {<< Call(op, IF op = "reaction" THEN "cond" ELSE NoFn), Put("a", 0) >> :
        op \in {"run", "runDeferred", "reaction"}}

\* the keys the user sets and deletes at top level
SetKeys == {"a", "b"}
DelKeys == {"a"}

-----------------------------------------------------------------------------
(* Ordered sets: the insertion-ordered Set and Map of JavaScript *)

Range(q) == {q[i] : i \in 1..Len(q)}
OrdAdd(q, x) == IF x \in Range(q) THEN q ELSE Append(q, x)
OrdDel(q, x) == SelectSeq(q, LAMBDA y : y # x)
Last(q) == q[Len(q)]
Front(q) == SubSeq(q, 1, Len(q) - 1)

\* Maps whose keys come and go: get, has, set, delete
NoMap == [x \in {} |-> 0]
Has(f, x) == x \in DOMAIN f
With(f, x, v) == [y \in DOMAIN f \cup {x} |-> IF y = x THEN v ELSE f[y]]
Without(f, x) == [y \in DOMAIN f \ {x} |-> f[y]]

-----------------------------------------------------------------------------
(* The state *)

VARIABLES
    data,      \* the source record d: its data keys
    upd,       \* the Updatables: fn, valid, value, computing, invalidIteration, deps, uninit, hook
    toUpdate,  \* per source and key: the subscribed Updatables (updates.updatableStates)
    mgr,       \* the Manager: valid, inRunSection, runScheduled, callStack, reactionsToUpdate, options
    timers,    \* the callbacks of setTimeout that have not fired yet
    heap,      \* the records g, p, c: own keys, prototypes, wrappers, updatableStateEx
    ctl,       \* the control stack: the frames of the calls in progress
    raising,   \* the exception being propagated, or "none"
    hist       \* history of the run, read by the properties only

vars == << data, upd, toUpdate, mgr, timers, heap, ctl, raising, hist >>

\* the state as one record, so that a handler is an operator from states to states
St ==
    [data |-> data, upd |-> upd, sub |-> toUpdate, m |-> mgr, timers |-> timers,
     h |-> heap, ctl |-> ctl, raising |-> raising, g |-> hist]

Commit(s) ==
    /\ data' = s.data
    /\ upd' = s.upd
    /\ toUpdate' = s.sub
    /\ mgr' = s.m
    /\ timers' = s.timers
    /\ heap' = s.h
    /\ ctl' = s.ctl
    /\ raising' = s.raising
    /\ hist' = s.g

\* an Updatable slot that makeUpdatable has not created yet
NoUpdatable ==
    [fn |-> NoFn, valid |-> FALSE, value |-> Undef, computing |-> FALSE,
     invalidIteration |-> FALSE, deps |-> << >>,
     uninit |-> [src \in Sources |-> NoKey], hook |-> FALSE]

\* frames of the control stack
CallFrame(u, f) ==
    [t |-> "call", u |-> u, prog |-> Prog(f), pc |-> 1, acc |-> 0,
     ph |-> "-", it |-> 0, snap |-> << >>]
ActFrame(act) ==
    [t |-> "act", u |-> NoUpd, prog |-> act, pc |-> 1, acc |-> 0,
     ph |-> "-", it |-> 0, snap |-> << >>]
RunFrame(ph) ==
    [t |-> "run", u |-> NoUpd, prog |-> << >>, pc |-> 1, acc |-> 0,
     ph |-> ph, it |-> 0, snap |-> << >>]
DeferFrame ==
    [t |-> "rdef", u |-> NoUpd, prog |-> << >>, pc |-> 1, acc |-> 0,
     ph |-> "-", it |-> 0, snap |-> << >>]

Idle(s) == s.ctl = << >> /\ s.raising = "none"
Top(s) == Last(s.ctl)
Push(s, fr) == [s EXCEPT !.ctl = Append(@, fr)]
Pop(s) == [s EXCEPT !.ctl = Front(@)]

\* the Updatable whose function body is the frame on top of the control
\* stack: the one that performs the next read or demand
Consumer(s) ==
    IF s.ctl # << >> /\ Top(s).t = "call" THEN Top(s).u ELSE NoUpd

-----------------------------------------------------------------------------
(* History: facts about the run that the engine itself does not keep.      *)
(* budget        top-level operations the user may still perform           *)
(* op            the top-level operation in progress, or the last one      *)
(* err           the exception that operation raised to its caller         *)
(* execs[u]      executions of u's function begun during that operation    *)
(* everRun[u]    u's function has been executed                            *)
(* lastReads[u]  data keys read by u's most recent execution, those read   *)
(*               by the computed properties it demanded included           *)
(* direct[u]     keys of d that u's most recent execution read itself      *)
(* changed[u]    data keys set to another value, or deleted, since u's     *)
(*               most recent execution began                               *)
(* justified[u]  u's most recent execution was the first, or followed a    *)
(*               change of a key read by the execution before it           *)
(* lastDemands[u]  Updatables demanded by u's most recent execution        *)
(* inval         reactions invalidated since their most recent execution   *)
(* opInval       Updatables invalidateDeps was called on in the operation  *)
(* turned        Updatables the operation turned from valid to invalid     *)
(* cascaded      reactions invalidated in the operation by a write made    *)
(*               while the function of an Updatable was being executed     *)
(* selfInval     reactions invalidated in the operation while their own    *)
(*               function was being executed                               *)
(* wrote         data keys changed outside any derivation in the operation *)
(* iterSet       reactionsToUpdate when the iteration in progress, or the  *)
(*               last one, of the operation's pass began                   *)
(* iterRan       the reactions whose functions that iteration executed, in *)
(*               the order of their executions                             *)
(* due, invalAtRun  at the start of the operation's reaction pass: the     *)
(*               reactions that read a key of wrote / the set inval        *)
(* owed          at the start of the operation's reaction pass: the        *)
(*               registered reactions never executed, or with a changed    *)
(*               key among those their most recent execution read          *)
(* afterRun      onAfterRun was invoked during the operation               *)
(* result        what the operation's demand returned                      *)
(* warned        cross-reference warnings emitted during the operation     *)
(* writeRaised   an exception left a user function at one of its writes    *)
(* observed      what isObservable answered in the operation               *)
(* readsAt[u]    the (record, key) pairs of g, p, c that u's most recent   *)
(*               execution read through the wrappers                       *)
(* pre           the operation is on a key of g, p or c: the record, the   *)
(*               key, the value set, and the state when it began           *)
(* batched       the operation is the callback of setTimeout that follows  *)
(*               a runDeferred(action)                                     *)

NoOp == [kind |-> "-", key |-> NoKey, fn |-> NoFn, act |-> FALSE, fresh |-> FALSE,
         changed |-> FALSE, readers |-> {}, prog |-> << >>]

NoPre ==
    [obj |-> NoObj, key |-> NoKey, val |-> Undef, old |-> Undef, own |-> FALSE,
     valid |-> [u \in Upd |-> FALSE], mvalid |-> FALSE, rtu |-> << >>,
     runScheduled |-> FALSE, timers |-> 0,
     readsAt |-> [u \in Upd |-> {}], sub |-> {}, watchers |-> {}]

InitHist(n) ==
    [budget |-> n, op |-> NoOp, err |-> "none",
     execs |-> [u \in Upd |-> 0],
     everRun |-> [u \in Upd |-> FALSE],
     lastReads |-> [u \in Upd |-> {}],
     direct |-> [u \in Upd |-> {}],
     changed |-> [u \in Upd |-> {}],
     justified |-> [u \in Upd |-> TRUE],
     lastDemands |-> [u \in Upd |-> {}],
     inval |-> {}, opInval |-> {}, turned |-> {}, cascaded |-> {},
     selfInval |-> {}, wrote |-> {}, iterSet |-> << >>, iterRan |-> << >>,
     due |-> {},
     invalAtRun |-> {}, owed |-> {},
     afterRun |-> FALSE, result |-> Undef, batched |-> FALSE, warned |-> 0,
     writeRaised |-> FALSE, observed |-> FALSE,
     readsAt |-> [u \in Upd |-> {}], pre |-> NoPre]

\* a top-level operation begins
BeginOp(s, o) ==
    [s EXCEPT !.g.budget = @ - 1, !.g.op = o, !.g.err = "none",
              !.g.execs = [u \in Upd |-> 0], !.g.opInval = {}, !.g.turned = {},
              !.g.cascaded = {}, !.g.selfInval = {},
              !.g.iterSet = << >>, !.g.iterRan = << >>,
              !.g.wrote = {},
              !.g.due = {}, !.g.invalAtRun = {}, !.g.owed = {},
              !.g.afterRun = FALSE,
              !.g.result = Undef, !.g.warned = 0,
              !.g.writeRaised = FALSE, !.g.observed = FALSE,
              !.g.batched = (o.kind = "tick" /\ s.g.op.kind = "runDeferred"
                                /\ s.g.op.act /\ s.m.enabled)]

\* key k of d was set to another value, or deleted
noteMutation(s, k) ==
    [s EXCEPT !.g.changed = [u \in Upd |-> @[u] \cup {k}],
              !.g.wrote = IF s.m.callStack = << >> THEN @ \cup {k} ELSE @]

\* c's function read data key k
noteRead(s, c, k) ==
    IF c = NoUpd THEN s
    ELSE [s EXCEPT !.g.direct[c] = @ \cup {k},
                   !.g.lastReads[c] = IF k \in DataKeys THEN @ \cup {k} ELSE @]

\* c's function demanded Updatable u
noteDemand(s, c, u) ==
    IF c = NoUpd THEN s ELSE [s EXCEPT !.g.lastDemands[c] = @ \cup {u}]

\* c's function received u's value
noteResult(s, c, u) ==
    IF c = NoUpd THEN s
    ELSE [s EXCEPT !.g.lastReads[c] = @ \cup s.g.lastReads[u]]

\* an execution of u's function begins
noteExecStart(s, u) ==
    [s EXCEPT !.g.execs[u] = @ + 1,
              !.g.justified[u] =
                  ~s.g.everRun[u] \/ s.g.changed[u] \cap s.g.lastReads[u] # {},
              !.g.everRun[u] = TRUE,
              !.g.lastReads[u] = {},
              !.g.direct[u] = {},
              !.g.changed[u] = {},
              !.g.lastDemands[u] = {},
              !.g.readsAt[u] = {},
              !.g.iterRan = IF u \in Reactions THEN Append(@, u) ELSE @,
              !.g.inval = @ \ {u}]

\* invalidateDeps was called on u
noteInvalidate(s, u) ==
    [s EXCEPT !.g.opInval = @ \cup {u},
              !.g.turned = IF s.upd[u].valid THEN @ \cup {u} ELSE @,
              !.g.cascaded = IF u \in Reactions /\ s.m.callStack # << >>
                             THEN @ \cup {u} ELSE @,
              !.g.selfInval = IF u \in Reactions /\ s.upd[u].computing
                              THEN @ \cup {u} ELSE @,
              !.g.inval = IF u \in Reactions THEN @ \cup {u} ELSE @]

\* c's function read key k of record o through the wrapper of o
noteReadAt(s, c, o, k) ==
    IF c = NoUpd THEN s ELSE [s EXCEPT !.g.readsAt[c] = @ \cup {<< o, k >>}]

\* console.warn(`Detected cross reference inside computed properties! ...`)
noteWarn(s) == [s EXCEPT !.g.warned = @ + 1]

\* an iteration of the loop of run() begins
noteIteration(s) ==
    [s EXCEPT !.g.iterSet = s.m.reactionsToUpdate, !.g.iterRan = << >>]

\* the reaction pass of run() begins
notePass(s) ==
    [s EXCEPT !.g.due = {u \in Reactions :
                            /\ s.upd[u].fn # NoFn
                            /\ s.g.everRun[u]
                            /\ s.g.lastReads[u] \cap s.g.wrote # {}},
              !.g.invalAtRun = s.g.inval,
              !.g.owed = {u \in Reactions :
                             /\ s.upd[u].fn # NoFn
                             /\ s.g.everRun[u] =>
                                    s.g.lastReads[u] \cap s.g.changed[u] # {}}]

-----------------------------------------------------------------------------
(* makeObservable: invalidateDeps, registerRead, updateProperty *)

\* the onInvalidate hook of a reaction (makeReaction)
onInvalidate(s, u) ==
    IF s.upd[u].hook
    THEN [s EXCEPT !.m.reactionsToUpdate = OrdAdd(@, u)]
    ELSE s

RECURSIVE invalidateDeps(_, _)
RECURSIVE invalidateEach(_, _, _)

\* deps.forEach(invalidateDeps): the entries of the live Set, in insertion order
invalidateEach(s, u, i) ==
    IF i > Len(s.upd[u].deps) THEN s
    ELSE invalidateEach(invalidateDeps(s, s.upd[u].deps[i]), u, i + 1)

invalidateDeps(s, u) ==
    LET s1 == [s EXCEPT !.m.valid = FALSE, !.upd[u].invalidIteration = TRUE]
        s2 == onInvalidate(noteInvalidate(s1, u), u)
        s3 == IF s2.upd[u].valid
              THEN invalidateEach([s2 EXCEPT !.upd[u].valid = FALSE], u, 1)
              ELSE s2
    IN  [s3 EXCEPT !.upd[u].deps = << >>]

\* a wrapper whose get trap subscribes nobody
registerNothing(s, u, src, k) == s

\* registerRead(updatableState, key) with options.prototypes = false
registerRead(s, u, src, k) ==
    [s EXCEPT !.sub[src][k] = OrdAdd(@, u),
              !.upd[u].uninit[src] = k]

\* the uninit entry of u for source src: leave the list of the key it names
uninitOne(s, u, src) ==
    IF s.upd[u].uninit[src] = NoKey THEN s
    ELSE [s EXCEPT !.sub[src][s.upd[u].uninit[src]] = OrdDel(@, u)]

\* the uninit entry of u for record o: leave the list of the key it names,
\* and delete the list when it is empty
uninitObj(s, u, o) ==
    IF ~Has(s.h.uninit, << u, o >>) THEN s
    ELSE LET k == s.h.uninit[<< u, o >>]
             q == OrdDel(s.h.toUpdate[<< o, k >>], u)
         IN  [s EXCEPT !.h.toUpdate = IF q = << >> THEN Without(@, << o, k >>)
                                      ELSE With(@, << o, k >>, q),
                       !.h.ex = Without(@, << o, k, u >>),
                       !.h.uninit = Without(@, << u, o >>)]

\* updatableState.uninit.forEach(uninit => uninit(updatableState)); uninit.clear()
runUninit(s, u) ==
    LET s1 == [uninitOne(s, u, "d") EXCEPT !.upd[u].uninit = [src \in Sources |-> NoKey]]
    IN  uninitObj(uninitObj(uninitObj(s1, u, "g"), u, "p"), u, "c")

-----------------------------------------------------------------------------
(* run and runDeferred *)

\* run() past the batch action: runScheduled = false; iterations = 0
enterLoop(s) ==
    notePass([s EXCEPT !.m.runScheduled = FALSE])

\* a run that does not look at options.enabled
runAlways(s, act) ==
    LET s1 == [s EXCEPT !.m.inRunSection = TRUE]
    IN  IF act # << >>
        THEN Push(Push(s1, RunFrame("action")), ActFrame(act))
        ELSE Push(enterLoop(s1), RunFrame("loop"))

run(s, act) ==
    IF ~s.m.enabled THEN s
    ELSE LET s1 == [s EXCEPT !.m.inRunSection = TRUE]
         IN  IF act # << >>
             THEN Push(Push(s1, RunFrame("action")), ActFrame(act))
             ELSE Push(enterLoop(s1), RunFrame("loop"))

\* a runDeferred that runs the pass before it returns
runAtOnce(s, act) ==
    IF ~s.m.enabled THEN s
    ELSE LET s1 == [s EXCEPT !.m.inRunSection = TRUE]
         IN  IF act # << >>
             THEN Push(Push(s1, RunFrame("action")), ActFrame(act))
             ELSE Push(enterLoop(s1), RunFrame("loop"))

\* setTimeout(() => this.run()) unless a token is held
schedule(s) ==
    IF s.m.runScheduled THEN s
    ELSE [s EXCEPT !.m.runScheduled = TRUE, !.timers = @ + 1]

runDeferred(s, act) ==
    IF ~s.m.enabled THEN s
    ELSE LET s1 == schedule([s EXCEPT !.m.inRunSection = TRUE])
         IN  IF act # << >>
             THEN Push(Push(s1, DeferFrame), ActFrame(act))
             ELSE [s1 EXCEPT !.m.inRunSection = FALSE]

RECURSIVE invalidateList(_, _, _, _)
\* updates.updatableStates.forEach(...) of updateProperty, every entry a root entry
invalidateList(s, src, k, i) ==
    IF i > Len(s.sub[src][k]) THEN s
    ELSE invalidateList(invalidateDeps(s, s.sub[src][k][i]), src, k, i + 1)

\* an updateProperty that always defers the pass
reactDeferred(s) ==
    IF s.m.inRunSection THEN s ELSE runDeferred(s, << >>)

\* an updateProperty that starts or schedules a pass inside a batch too
reactInBatch(s) ==
    IF s.m.immediateReaction THEN run(s, << >>) ELSE runDeferred(s, << >>)

\* after the invalidations of updateProperty: start or schedule a pass
react(s) ==
    IF s.m.inRunSection THEN s
    ELSE IF s.m.immediateReaction THEN run(s, << >>)
    ELSE runDeferred(s, << >>)

updateProperty(s, src, k) ==
    react(invalidateList(invalidateList(s, src, k, 1), src, watchKey, 1))

-----------------------------------------------------------------------------
(* makeObservable for the records g, p, c: records with prototypes, with    *)
(* records as values, and sequences                                        *)

\* an updatableStateEx just created: {}
NoEx == [root |-> FALSE, prototypes |-> [o \in Objs |-> << >>]]

\* updates.updatableStateMap.get(updatableState) of the list of key k of o
ExOf(s, o, k, u) ==
    IF Has(s.h.ex, << o, k, u >>) THEN s.h.ex[<< o, k, u >>] ELSE NoEx

\* updates.updatableStates of key k of o
ListOf(s, o, k) ==
    IF Has(s.h.toUpdate, << o, k >>) THEN s.h.toUpdate[<< o, k >>] ELSE << >>

\* the target of a Proxy
TargetOf(s, w) == s.h.targets[w - 20]

\* obj[key] on the source: the own value, or the value of the prototype
RECURSIVE lookup(_, _, _)
lookup(h, o, k) ==
    IF h.own[o][k] # Absent THEN h.own[o][k]
    ELSE IF h.proto[o] = NoObj THEN Undef
    ELSE lookup(h, h.proto[o], k)

\* obj.hasOwnProperty(key)
hasOwnProperty(h, o, k) == k \in HKeys /\ h.own[o][k] # Absent

RECURSIVE registerReadAt(_, _, _, _, _)
RECURSIVE protoWalk(_, _, _, _, _)
RECURSIVE deepWalk(_, _, _)
RECURSIVE makeObservable(_, _)
RECURSIVE trapGet(_, _, _)

\* new Proxy(dataSource, ...); manager.observables.set(dataSource, observable)
newProxy(s, o) ==
    [s EXCEPT !.h.targets = Append(@, o),
              !.h.observables[o] = Len(s.h.targets) + 1]

\* a makeObservable that does not look into manager.observables
makeObservableAnew(s, v) ==
    IF ~IsRef(v) THEN [s |-> s, val |-> v]
    ELSE LET s1 == newProxy(s, ObjOf(v))
         IN  [s |-> s1, val |-> Wrapper(s1.h.observables[ObjOf(v)])]

\* makeObservable(dataSource): the state after the call and the value returned
makeObservable(s, v) ==
    IF IsWrapper(v)
    THEN \* dataSource.constructor goes through the get trap of the wrapper
         [s |-> IF s.m.callStack # << >>
                THEN registerReadAt(s, Last(s.m.callStack), TargetOf(s, v),
                                    "constructor", << >>)
                ELSE s,
          val |-> v]
    ELSE IF ~IsRef(v) THEN [s |-> s, val |-> v]
    ELSE IF s.h.observables[ObjOf(v)] # 0
    THEN [s |-> s, val |-> Wrapper(s.h.observables[ObjOf(v)])]
    ELSE LET s1 == newProxy(s, ObjOf(v))
         IN  [s |-> s1, val |-> Wrapper(s1.h.observables[ObjOf(v)])]

\* Object.keys(dataSource).forEach of the deep watch, over the keys ks
deepWalk(s, o, ks) ==
    IF ks = << >> \/ s.raising # "none" THEN s
    ELSE LET v == s.h.own[o][Head(ks)] IN
         IF ~IsObject(v) THEN deepWalk(s, o, Tail(ks))
         ELSE IF v = Null
         THEN \* obs is null: obs[manager.options.watchDeepKey] throws
              [s EXCEPT !.raising = "TypeError"]
         ELSE LET r == makeObservable(s, v)
              IN  deepWalk(trapGet(r.s, TargetOf(r.s, r.val), watchDeepKey).s,
                           o, Tail(ks))

\* the loop over the prototypes of registerRead; ch is the array `prototypes`
protoWalk(s, u, pr, k, ch) ==
    IF pr = NoObj THEN s
    ELSE IF s.h.observables[pr] # 0
    THEN registerReadAt(s, u, pr, k, << pr >> \o ch)
    ELSE protoWalk(s, u, s.h.proto[pr], k, << pr >> \o ch)

\* registerRead(updatableState, key, prototypes) of the wrapper of o; ch is
\* `prototypes`, empty when the argument is not given.  The array stored in
\* updatableStateEx.prototypes is kept as it is when it is stored: what
\* registerRead puts in front of it later lies before o, where updateProperty
\* does not look.
registerReadAt(s, u, o, k, ch) ==
    IF k = watchDeepKey /\ o \in s.h.watchDeepSection THEN s
    ELSE LET s1 == IF k = watchDeepKey
                   THEN deepWalk([s EXCEPT !.h.watchDeepSection = @ \cup {o}],
                                 o, << "a", "b" >>)
                   ELSE s
             ck == IF k = watchDeepKey THEN watchKey ELSE k
         IN  IF s1.raising # "none" THEN s1
             ELSE LET ex == ExOf(s1, o, ck, u)
                      s2 == [s1 EXCEPT
                                !.h.watchDeepSection =
                                    IF k = watchDeepKey THEN @ \ {o} ELSE @,
                                !.h.toUpdate =
                                    With(@, << o, ck >>, OrdAdd(ListOf(s1, o, ck), u)),
                                !.h.ex = With(@, << o, ck, u >>, ex),
                                !.h.uninit = With(@, << u, o >>, ck)]
                  IN  IF ~s2.m.prototypes
                      THEN [s2 EXCEPT !.h.ex[<< o, ck, u >>].root = TRUE]
                      ELSE IF ch = << >>
                      THEN protoWalk([s2 EXCEPT !.h.ex[<< o, ck, u >>].root = TRUE],
                                     u, s2.h.proto[o], k, << o >>)
                      ELSE IF ex.prototypes[Last(ch)] # << >> THEN s2
                      ELSE protoWalk(
                               [s2 EXCEPT !.h.ex[<< o, ck, u >>].prototypes[Last(ch)] = ch],
                               u, s2.h.proto[o], k, ch)

\* get: (obj, key, context) of the wrapper of o, for a key with no getter:
\* the state after the trap and the value it returns
trapGet(s, o, k) ==
    LET s1 == IF s.m.callStack # << >>
              THEN registerReadAt(s, Last(s.m.callStack), o, k, << >>)
              ELSE s
    IN  IF s1.raising # "none" THEN [s |-> s1, val |-> Undef]
        ELSE IF k \in {watchKey, watchDeepKey}
        THEN [s |-> s1, val |-> Wrapper(s1.h.observables[o])]
        ELSE IF IsObject(lookup(s1.h, o, k))
        THEN makeObservable(s1, lookup(s1.h, o, k))
        ELSE [s |-> s1, val |-> lookup(s1.h, o, k)]

\* prototypes.indexOf(obj) + 1, counting from 1
IndexAfter(ch, o) ==
    IF o \in Range(ch) THEN 1 + CHOOSE j \in 1..Len(ch) : ch[j] = o ELSE 1

\* the test of updateProperty on one array of prototypes: no record after obj
\* has the key as its own
Unshadowed(h, ch, o, k) ==
    \A i \in IndexAfter(ch, o)..Len(ch) : ~hasOwnProperty(h, ch[i], k)

\* updateProperty: is the entry of u in the list of updKey invalidated by a
\* write to key k of o
Invalidates(s, o, updKey, u, k) ==
    LET ex == ExOf(s, o, updKey, u)
    IN  \/ ex.root
        \/ \E r \in Objs : /\ ex.prototypes[r] # << >>
                           /\ Unshadowed(s.h, ex.prototypes[r], o, k)

RECURSIVE invalidateEntries(_, _, _, _, _)
\* updates.updatableStates.forEach(...) of updateProperty, for the list of updKey
invalidateEntries(s, o, updKey, k, i) ==
    IF i > Len(ListOf(s, o, updKey)) THEN s
    ELSE LET u == ListOf(s, o, updKey)[i]
         IN  invalidateEntries(
                 IF Invalidates(s, o, updKey, u, k) THEN invalidateDeps(s, u) ELSE s,
                 o, updKey, k, i + 1)

\* updateProperty(obj, key) of the wrapper of o
updatePropertyAt(s, o, k) ==
    react(invalidateEntries(invalidateEntries(s, o, k, k, 1), o, watchKey, k, 1))

\* set: (obj, key, val) of the wrapper of o
trapSet(s, o, k, v) ==
    IF v # lookup(s.h, o, k) \/ (s.h.isArray[o] /\ k = "length")
    THEN updatePropertyAt([s EXCEPT !.h.own[o][k] = v], o, k)
    ELSE s

\* deleteProperty: (obj, key) of the wrapper of o
trapDelete(s, o, k) ==
    updatePropertyAt(s, o, k)

\* isObservable(obj): obj[this.$isObservableSymbol] === true
isObservable(s, v) ==
    IF v \in {Null, Undef}
    THEN [s |-> [s EXCEPT !.raising = "TypeError"], val |-> FALSE]
    ELSE [s |-> s, val |-> IsWrapper(v)]

-----------------------------------------------------------------------------
(* The Proxy traps of the wrapper of d *)

\* a set trap that refuses a write made while an Updatable is computing
proxySetStrict(s, k, v) ==
    IF s.m.callStack # << >> THEN [s EXCEPT !.raising = "IterationLimit"]
    ELSE IF v # s.data[k]
    THEN updateProperty(noteMutation([s EXCEPT !.data[k] = v], k), "d", k)
    ELSE s

\* set: (obj, key, val)
proxySet(s, k, v) ==
    IF v # s.data[k]
    THEN updateProperty(noteMutation([s EXCEPT !.data[k] = v], k), "d", k)
    ELSE s

\* deleteProperty: (obj, key)
proxyDelete(s, k) ==
    updateProperty(noteMutation(s, k), "d", k)

\* the own property descriptor of key k of d has a getter
IsAccessor(s, k) == k \in CompKeys /\ s.upd[k].fn # NoFn

\* obj[key] for a key that is no accessor
valueOf(s, k) == IF k \in DataKeys THEN s.data[k] ELSE Undef

-----------------------------------------------------------------------------
(* makeUpdatable: updatableFunction *)

\* the value v arrives in the frame that asked for it
deliver(s, v) ==
    IF s.ctl # << >> /\ Top(s).t \in {"call", "act"}
    THEN [s EXCEPT !.ctl[Len(s.ctl)].acc = Plus(@, v),
                   !.ctl[Len(s.ctl)].pc = @ + 1]
    ELSE IF s.ctl = << >> THEN [s EXCEPT !.g.result = v]
    ELSE s

\* an updatableFunction that records its consumer only when it computes
updatableFunctionMiss(s, u) ==
    LET c == Consumer(s) IN
    IF s.upd[u].computing
    THEN [s |-> noteWarn(s), pushed |-> FALSE, val |-> Undef]
    ELSE LET s2 == noteDemand(s, c, u)
         IN  IF s2.upd[u].valid
             THEN [s |-> noteResult(s2, c, u), pushed |-> FALSE,
                   val |-> s2.upd[u].value]
             ELSE LET s1 == IF s.m.callStack # << >>
                            THEN [s2 EXCEPT !.upd[u].deps = OrdAdd(@, Last(s.m.callStack))]
                            ELSE s2
                      s3 == runUninit([s1 EXCEPT !.upd[u].computing = TRUE], u)
                      s4 == [s3 EXCEPT !.m.callStack = Append(@, u),
                                       !.upd[u].invalidIteration = FALSE]
                  IN  [s |-> Push(noteExecStart(s4, u), CallFrame(u, s.upd[u].fn)),
                       pushed |-> TRUE, val |-> Undef]

\* an updatableFunction that raises when it is called while computing
updatableFunctionStrict(s, u) ==
    LET c == Consumer(s) IN
    IF s.upd[u].computing
    THEN [s |-> [s EXCEPT !.raising = "CrossReference"], pushed |-> FALSE,
          val |-> Undef]
    ELSE LET s1 == IF s.m.callStack # << >>
                   THEN [s EXCEPT !.upd[u].deps = OrdAdd(@, Last(s.m.callStack))]
                   ELSE s
             s2 == noteDemand(s1, c, u)
         IN  IF s2.upd[u].valid
             THEN [s |-> noteResult(s2, c, u), pushed |-> FALSE,
                   val |-> s2.upd[u].value]
             ELSE LET s3 == runUninit([s2 EXCEPT !.upd[u].computing = TRUE], u)
                      s4 == [s3 EXCEPT !.m.callStack = Append(@, u),
                                       !.upd[u].invalidIteration = FALSE]
                  IN  [s |-> Push(noteExecStart(s4, u), CallFrame(u, s.upd[u].fn)),
                       pushed |-> TRUE, val |-> Undef]

\* updatableFunction up to call.call(context, context): either it returns at
\* once (pushed = FALSE, val the value returned) or the function body starts
updatableFunction(s, u) ==
    LET c == Consumer(s) IN
    IF s.upd[u].computing
    THEN [s |-> noteWarn(s), pushed |-> FALSE, val |-> Undef]
    ELSE LET s1 == IF s.m.callStack # << >>
                   THEN [s EXCEPT !.upd[u].deps = OrdAdd(@, Last(s.m.callStack))]
                   ELSE s
             s2 == noteDemand(s1, c, u)
         IN  IF s2.upd[u].valid
             THEN [s |-> noteResult(s2, c, u), pushed |-> FALSE,
                   val |-> s2.upd[u].value]
             ELSE LET s3 == runUninit([s2 EXCEPT !.upd[u].computing = TRUE], u)
                      s4 == [s3 EXCEPT !.m.callStack = Append(@, u),
                                       !.upd[u].invalidIteration = FALSE]
                  IN  [s |-> Push(noteExecStart(s4, u), CallFrame(u, s.upd[u].fn)),
                       pushed |-> TRUE, val |-> Undef]

\* a call of updatableFunction whose value goes to the frame below
callUpdatable(s, u) ==
    LET r == updatableFunction(s, u)
    IN  IF r.pushed THEN r.s ELSE deliver(r.s, r.val)

\* an updatableFunction whose finally leaves computing as it is
returnValueComputing(s) ==
    LET u == Top(s).u
        v == Top(s).acc
        s1 == [s EXCEPT !.upd[u].valid = ~s.upd[u].invalidIteration,
                        !.upd[u].value = v,
                        !.m.callStack = Front(@)]
        s2 == Pop(s1)
    IN  deliver(noteResult(s2, Consumer(s2), u), v)

\* updatableFunction after call.call returned: valid, value, and the finally
returnValue(s) ==
    LET u == Top(s).u
        v == Top(s).acc
        s1 == [s EXCEPT !.upd[u].valid = ~s.upd[u].invalidIteration,
                        !.upd[u].value = v,
                        !.upd[u].computing = FALSE,
                        !.m.callStack = Front(@)]
        s2 == Pop(s1)
    IN  deliver(noteResult(s2, Consumer(s2), u), v)

\* the instruction a frame performed last was a write
AtWrite(fr) ==
    fr.pc > 1 /\ fr.prog[fr.pc - 1].op \in {"setinc", "setacc", "put"}

\* an exception that leaves the top frame past no finally block
unwindNoFinally(s) ==
    LET s2 == Pop(s)
    IN  IF s2.ctl = << >>
        THEN [s2 EXCEPT !.g.err = s.raising, !.raising = "none"]
        ELSE s2

\* the finally blocks passed by an exception that leaves the top frame
unwind(s) ==
    LET fr == Top(s)
        s1 == CASE fr.t = "call" ->
                     [s EXCEPT !.upd[fr.u].computing = FALSE,
                               !.m.callStack = Front(@),
                               !.g.writeRaised = @ \/ AtWrite(fr)]
                [] fr.t \in {"run", "rdef"} ->
                     [s EXCEPT !.m.inRunSection = FALSE]
                [] OTHER -> s
        s2 == Pop(s1)
    IN  IF s2.ctl = << >>
        THEN [s2 EXCEPT !.g.err = s.raising, !.raising = "none"]
        ELSE s2

-----------------------------------------------------------------------------
(* makeUpdatable, makeComputed, makeReaction *)

\* makeUpdatable(call, settings) for an Updatable not in the cache yet
makeUpdatable(s, u, f, hook) ==
    [s EXCEPT !.m.valid = FALSE,
              !.upd[u] = [NoUpdatable EXCEPT !.fn = f, !.hook = hook]]

\* makeComputed(d, k, f): an own accessor of d whose getter is the Updatable
makeComputed(s, k, f) == makeUpdatable(s, k, f, FALSE)

\* a cache of the Manager in which no function is ever found
InternedNever(s, f) == {}

\* the cache of the Manager: the Updatable of function f with host Manager
Interned(s, f) == {r \in Reactions : s.upd[r].fn = f}
FreeSlots(s) == {r \in Reactions : s.upd[r].fn = NoFn}
NewSlot(s) == IF "r1" \in FreeSlots(s) THEN "r1" ELSE "r2"
SlotOf(s, f) ==
    IF Interned(s, f) # {} THEN CHOOSE r \in Interned(s, f) : TRUE ELSE NewSlot(s)

makeReaction(s, f, runIt) ==
    LET u == SlotOf(s, f)
        s1 == IF Interned(s, f) # {} THEN s ELSE makeUpdatable(s, u, f, TRUE)
        s2 == [s1 EXCEPT !.m.reactionsToUpdate = OrdAdd(@, u)]
    IN  IF ~runIt THEN s2
        ELSE IF s2.m.immediateReaction THEN run(s2, << >>)
        ELSE runDeferred(s2, << >>)

-----------------------------------------------------------------------------
(* Initial states: the Manager after its constructor, and the record d *)

\* the record handed to observable(): {a: 1, b: 0, c: 0}
InitData == [k \in DataKeys |-> IF k = "a" THEN 1 ELSE 0]

\* the records g, p, c: here nothing but names
NoHeap ==
    [own |-> [o \in Objs |-> [k \in HKeys |-> Absent]],
     proto |-> [o \in Objs |-> NoObj],
     isArray |-> [o \in Objs |-> FALSE],
     observables |-> [o \in Objs |-> 0],
     targets |-> << >>,
     watchDeepSection |-> {},
     toUpdate |-> NoMap, ex |-> NoMap, uninit |-> NoMap]

InitWith(n) ==
    /\ data = InitData
    /\ upd = [u \in Upd |-> NoUpdatable]
    /\ toUpdate = [src \in Sources |-> [k \in Keys |-> << >>]]
    /\ \E en \in BOOLEAN, im \in BOOLEAN :
          mgr = [valid |-> FALSE, inRunSection |-> FALSE, runScheduled |-> FALSE,
                 callStack |-> << >>, reactionsToUpdate |-> << >>,
                 enabled |-> en, immediateReaction |-> im, prototypes |-> FALSE]
    /\ heap = NoHeap
    /\ timers = 0
    /\ ctl = << >>
    /\ raising = "none"
    /\ hist = InitHist(n)

Init == InitWith(MaxOps)

-----------------------------------------------------------------------------
(* The operations of the user, enabled when no call is in progress *)

CanStart == Idle(St) /\ hist.budget > 0

Op(kind, k, f, act, fresh) ==
    [kind |-> kind, key |-> k, fn |-> f, act |-> act, fresh |-> fresh,
     changed |-> FALSE, readers |-> {}, prog |-> << >>]

\* the reactions whose most recent execution read data key k
ReadersOf(s, k) ==
    {u \in Reactions : s.upd[u].fn # NoFn /\ s.g.everRun[u] /\ k \in s.g.lastReads[u]}

\* d.k = v through the wrapper
Set ==
    /\ CanStart
    /\ \E k \in SetKeys, v \in Vals :
          LET o == [Op("set", k, NoFn, FALSE, FALSE) EXCEPT
                        !.changed = (v # data[k]), !.readers = ReadersOf(St, k)]
          IN  Commit(proxySet(BeginOp(St, o), k, v))

\* delete d.k through the wrapper
Delete ==
    /\ CanStart
    /\ \E k \in DelKeys :
          Commit(proxyDelete(BeginOp(St, Op("delete", k, NoFn, FALSE, FALSE)), k))

\* d.k for a computed property k, outside any derivation
Demand ==
    /\ CanStart
    /\ \E k \in CompKeys :
          /\ IsAccessor(St, k)
          /\ Commit(callUpdatable(BeginOp(St, Op("demand", k, upd[k].fn, FALSE, FALSE)), k))

\* computed(d, k, f).  via reads d.k1: it is installed as k2, after k1
Computed(F) ==
    /\ CanStart
    /\ \E k \in CompKeys, f \in F :
          /\ upd[k].fn = NoFn
          /\ (k = "k1") = (f # "via")
          /\ f = "via" => upd["k1"].fn # NoFn
          /\ Commit(makeComputed(BeginOp(St, Op("computed", k, f, FALSE, TRUE)), k, f))

\* reaction(f, runIt)
Reaction(F) ==
    /\ CanStart
    /\ \E f \in F, runIt \in BOOLEAN :
          /\ Interned(St, f) # {} \/ FreeSlots(St) # {}
          /\ f = "via" => upd["k1"].fn # NoFn
          /\ Commit(makeReaction(
                 BeginOp(St, Op("reaction", SlotOf(St, f), f, runIt, Interned(St, f) = {})),
                 f, runIt))

\* run(action)
Run ==
    /\ CanStart
    /\ \E act \in Actions :
          LET o == [Op("run", NoKey, NoFn, act # << >>, FALSE) EXCEPT !.prog = act]
          IN  Commit(run(BeginOp(St, o), act))

\* runDeferred(action)
RunDeferred ==
    /\ CanStart
    /\ \E act \in Actions :
          LET o == [Op("runDeferred", NoKey, NoFn, act # << >>, FALSE) EXCEPT !.prog = act]
          IN  Commit(runDeferred(BeginOp(St, o), act))

\* setOptions({enabled: en})
SetEnabled ==
    /\ CanStart
    /\ \E en \in BOOLEAN :
          /\ en # mgr.enabled
          /\ Commit([BeginOp(St, Op("setOptions", NoKey, NoFn, FALSE, FALSE))
                        EXCEPT !.m.enabled = en])

\* a callback of setTimeout fires: () => this.run()
Tick ==
    /\ Idle(St)
    /\ timers > 0
    /\ Commit(run([BeginOp(St, Op("tick", NoKey, NoFn, FALSE, FALSE))
                      EXCEPT !.timers = @ - 1, !.g.budget = hist.budget], << >>))

-----------------------------------------------------------------------------
(* The operations of the user on the records g, p, c *)

\* the operation is on key k of record o, with value v
withPre(s, o, k, v) ==
    [s EXCEPT !.g.pre =
        [obj |-> o, key |-> k, val |-> v, old |-> lookup(s.h, o, k),
         own |-> hasOwnProperty(s.h, o, k),
         valid |-> [u \in Upd |-> s.upd[u].valid], mvalid |-> s.m.valid,
         rtu |-> s.m.reactionsToUpdate, runScheduled |-> s.m.runScheduled,
         timers |-> s.timers, readsAt |-> s.g.readsAt,
         sub |-> Range(ListOf(s, o, k)),
         watchers |-> Range(ListOf(s, o, watchKey))]]

\* an exception no frame is left to catch reaches the caller of the operation
toCaller(s) ==
    IF s.ctl = << >> /\ s.raising # "none"
    THEN [s EXCEPT !.g.err = s.raising, !.raising = "none"]
    ELSE s

\* the keys the user sets on record o
KeysAt(o) ==
    IF heap.isArray[o] THEN {"length"}
    ELSE IF o = "g" THEN {"a", "b"}
    ELSE {"a"}

\* $o.k = v, with $o = observable(o)
SetAt ==
    /\ CanStart
    /\ \E o \in Objs, v \in Vals : \E k \in KeysAt(o) :
          LET s0 == withPre(BeginOp(St, Op("setAt", k, NoFn, FALSE, FALSE)), o, k, v)
          IN  Commit(trapSet(makeObservable(s0, Ref(o)).s, o, k, v))

\* $o.k = $o.k
SetSame ==
    /\ CanStart
    /\ \E o \in Objs : \E k \in KeysAt(o) :
          LET s0 == BeginOp(St, Op("setSame", k, NoFn, FALSE, FALSE))
              r == trapGet(makeObservable(s0, Ref(o)).s, o, k)
          IN  Commit(trapSet(withPre(r.s, o, k, r.val), o, k, r.val))

\* delete $o.k
DeleteAt ==
    /\ CanStart
    /\ \E o \in Objs : \E k \in KeysAt(o) :
          LET s0 == withPre(BeginOp(St, Op("deleteAt", k, NoFn, FALSE, FALSE)),
                            o, k, Undef)
          IN  Commit(trapDelete(makeObservable(s0, Ref(o)).s, o, k))

\* what the user hands to observable(): null, a record, a wrapper
Observables(s) ==
    {Null} \cup {Ref(o) : o \in Objs} \cup {Wrapper(i) : i \in 1..Len(s.h.targets)}

\* observable(v)
Observable ==
    /\ CanStart
    /\ \E v \in Observables(St) :
          LET s0 == BeginOp(St, Op("observable", NoKey, NoFn, FALSE, FALSE))
              r == makeObservable([s0 EXCEPT !.g.pre = [NoPre EXCEPT !.val = v]], v)
          IN  Commit([r.s EXCEPT !.g.result = r.val])

\* isObservable($o.k)
ReadAt ==
    /\ CanStart
    /\ \E o \in Objs, k \in {"a", "b"} :
          LET s0 == withPre(BeginOp(St, Op("readAt", k, NoFn, FALSE, FALSE)),
                            o, k, Undef)
              r == trapGet(makeObservable(s0, Ref(o)).s, o, k)
              i == isObservable(r.s, r.val)
          IN  Commit(toCaller([i.s EXCEPT !.g.result = r.val,
                                          !.g.observed = i.val]))

-----------------------------------------------------------------------------
(* The steps of the call in progress *)

Running == ctl # << >> /\ raising = "none"
InBody == Running /\ Top(St).t \in {"call", "act"} /\ Top(St).pc <= Len(Top(St).prog)
Instr == Top(St).prog[Top(St).pc]
Advance(s) == [s EXCEPT !.ctl[Len(s.ctl)].pc = @ + 1]

\* a read guarded by a falsy condition is not performed
ExecSkip ==
    /\ InBody
    /\ Instr.op \in {"get", "getAt"} /\ Instr.cond /\ ~Truthy(Top(St).acc)
    /\ Commit(Advance(St))

\* get trap, own accessor: makeUpdatable(propertyDescriptor.get, {obj}).call(obj)
ExecGetComputed ==
    /\ InBody
    /\ Instr.op = "get" /\ (Instr.cond => Truthy(Top(St).acc))
    /\ IsAccessor(St, Instr.key)
    /\ Commit(callUpdatable(St, Instr.key))

\* get trap, data property: registerRead for the top of callStack, then obj[key]
proxyGet(s, k) ==
    LET s1 == IF s.m.callStack # << >>
              THEN noteRead(registerRead(s, Last(s.m.callStack), "d", k), Consumer(s), k)
              ELSE s
    IN  deliver(s1, valueOf(s1, k))

ExecGet ==
    /\ InBody
    /\ Instr.op = "get" /\ (Instr.cond => Truthy(Top(St).acc))
    /\ ~IsAccessor(St, Instr.key)
    /\ Commit(proxyGet(St, Instr.key))

\* $o.key inside a user function: the get trap of the wrapper of o
getAt(s, o, k) ==
    LET r == trapGet(makeObservable(s, Ref(o)).s, o, k)
        s1 == noteReadAt(r.s, Consumer(s), o, k)
    IN  IF s1.raising # "none" THEN s1 ELSE deliver(s1, r.val)

ExecGetAt ==
    /\ InBody
    /\ Instr.op = "getAt" /\ (Instr.cond => Truthy(Top(St).acc))
    /\ Commit(getAt(St, Instr.obj, Instr.key))

\* the value an assignment of a user function stores
Stored(in, acc) ==
    CASE in.op = "setinc" -> Inc(acc)
      [] in.op = "setacc" -> acc
      [] OTHER -> in.val

\* d.key = value inside a user function or a batch action: the set trap
ExecSet ==
    /\ InBody
    /\ Instr.op \in {"setinc", "setacc", "put"}
    /\ LET v == Stored(Instr, Top(St).acc)
           s1 == [Advance(St) EXCEPT !.ctl[Len(ctl)].acc =
                     IF Instr.op = "setinc" THEN v ELSE @]
       IN  Commit(proxySet(s1, Instr.key, v))

\* the user function returns
Return ==
    /\ Running
    /\ Top(St).t = "call" /\ Top(St).pc > Len(Top(St).prog)
    /\ Commit(returnValue(St))

\* the batch action returns to run(action) or runDeferred(action)
actionDone(s) ==
    LET s1 == Pop(s)
    IN  IF Top(s1).t = "run"
        THEN [enterLoop(s1) EXCEPT !.ctl[Len(s1.ctl)].ph = "loop",
                                   !.ctl[Len(s1.ctl)].it = 0]
        ELSE Pop([s1 EXCEPT !.m.inRunSection = FALSE])

ActionDone ==
    /\ Running
    /\ Top(St).t = "act" /\ Top(St).pc > Len(Top(St).prog)
    /\ Commit(actionDone(St))

\* the test of `while (!this.valid)` and what follows it
LimitExceeded(it) == it > maxIterations

\* a run() that stops at the limit without raising
loopHeadQuiet(s) ==
    LET n == Len(s.ctl) IN
    IF s.m.valid \/ LimitExceeded(s.ctl[n].it)
    THEN Pop([s EXCEPT !.g.afterRun = TRUE, !.m.inRunSection = FALSE])
    ELSE [noteIteration(s) EXCEPT !.m.valid = TRUE,
                   !.ctl[n].it = @ + 1,
                   !.ctl[n].snap = s.m.reactionsToUpdate,
                   !.ctl[n].ph = "drain"]

loopHead(s) ==
    LET n == Len(s.ctl) IN
    IF s.m.valid
    THEN Pop([s EXCEPT !.g.afterRun = TRUE, !.m.inRunSection = FALSE])
    ELSE IF LimitExceeded(s.ctl[n].it)
    THEN [s EXCEPT !.m.valid = TRUE, !.raising = "IterationLimit"]
    ELSE [noteIteration(s) EXCEPT !.m.valid = TRUE,
                   !.ctl[n].it = @ + 1,
                   !.ctl[n].snap = s.m.reactionsToUpdate,
                   !.ctl[n].ph = "drain"]

RunLoop ==
    /\ Running
    /\ Top(St).t = "run" /\ Top(St).ph = "loop"
    /\ Commit(loopHead(St))

\* a forEach that goes through the array from its end
drainNextLast(s) ==
    LET n == Len(s.ctl)
        u == Last(s.ctl[n].snap)
        s1 == [s EXCEPT !.ctl[n].snap = Front(@),
                        !.m.reactionsToUpdate = OrdDel(@, u)]
    IN  updatableFunction(s1, u).s

\* [...reactionsToUpdate.values()].forEach: delete the next one and call it
drainNext(s) ==
    LET n == Len(s.ctl)
        u == Head(s.ctl[n].snap)
        s1 == [s EXCEPT !.ctl[n].snap = Tail(@),
                        !.m.reactionsToUpdate = OrdDel(@, u)]
    IN  updatableFunction(s1, u).s

RunDrain ==
    /\ Running
    /\ Top(St).t = "run" /\ Top(St).ph = "drain" /\ Top(St).snap # << >>
    /\ Commit(drainNext(St))

RunDrained ==
    /\ Running
    /\ Top(St).t = "run" /\ Top(St).ph = "drain" /\ Top(St).snap = << >>
    /\ Commit([St EXCEPT !.ctl[Len(ctl)].ph = "loop"])

\* if (x > 1) throw new Error("fail") of a user function
ExecThrow ==
    /\ InBody
    /\ Instr.op = "throw"
    /\ Commit(IF Top(St).acc > 1 THEN [St EXCEPT !.raising = "Error"]
              ELSE Advance(St))

\* m.run(), m.runDeferred() or m.reaction(f) inside a user function or a
\* batch action
ExecCall ==
    /\ InBody
    /\ Instr.op \in {"run", "runDeferred", "reaction"}
    /\ Commit(CASE Instr.op = "run" -> run(Advance(St), << >>)
                [] Instr.op = "runDeferred" -> runDeferred(Advance(St), << >>)
                [] OTHER -> makeReaction(Advance(St), Instr.key, TRUE))

\* an exception leaves the top frame
Unwind ==
    /\ ctl # << >> /\ raising # "none"
    /\ Commit(unwind(St))

Step ==
    \/ ExecSkip \/ ExecGetComputed \/ ExecGet \/ ExecSet \/ Return
    \/ ActionDone \/ RunLoop \/ RunDrain \/ RunDrained \/ Unwind

UserOp == Set \/ Delete \/ Demand \/ Run \/ RunDeferred \/ SetEnabled

Next == UserOp \/ Computed(Fns) \/ Reaction(Fns) \/ Tick \/ Step

Spec == Init /\ [][Next]_vars

\* The programs whose user functions perform no writes: no exception is raised
PureStep ==
    \/ ExecSkip \/ ExecGetComputed \/ ExecGet \/ ExecSet \/ Return
    \/ ActionDone \/ RunLoop \/ RunDrain \/ RunDrained

NextPure == UserOp \/ Computed(PureFns) \/ Reaction(PureFns) \/ Tick \/ PureStep

PureSpec == InitWith(MaxOpsPure) /\ [][NextPure]_vars

\* The programs with computed properties that demand themselves
NextCross == UserOp \/ Computed(CrossFns) \/ Reaction(CrossFns) \/ Tick \/ PureStep

\* Step is enabled exactly while a call is in progress, Tick exactly while
\* no call is in progress and a callback of setTimeout is pending
StepEnabled == ctl # << >>
TickEnabled == Idle(St) /\ timers > 0

\* A call in progress runs to its end (JavaScript runs a call to completion)
\* and a pending callback of setTimeout fires: WF_vars(Step) and
\* WF_vars(Tick), each written out as
\*   []<>(the action is disabled) \/ []<>(a step of the action)
LiveSpec ==
    /\ InitWith(MaxOpsLive) /\ [][Next]_vars
    /\ ([]<>(~StepEnabled) \/ []<><<Step>>_vars)
    /\ ([]<>(~TickEnabled) \/ []<><<Tick>>_vars)

\* as LiveSpec, for the programs of NextCross
CrossSpec ==
    /\ InitWith(MaxOpsCross) /\ [][NextCross]_vars
    /\ ([]<>(~StepEnabled) \/ []<><<PureStep>>_vars)
    /\ ([]<>(~TickEnabled) \/ []<><<Tick>>_vars)

\* The programs whose functions read a chain of prototypes g <- p <- c
StepAt ==
    \/ ExecSkip \/ ExecGet \/ ExecGetAt \/ Return
    \/ RunLoop \/ RunDrain \/ RunDrained

NextProto == Set \/ SetAt \/ DeleteAt \/ Reaction(ProtoFns) \/ Tick \/ StepAt

\* g = {a: 1, b: 0}, p = Object.create(g), c = Object.create(p), p and c with
\* or without an own key a; all three wrapped; {prototypes: true}
InitProto ==
    /\ data = InitData
    /\ upd = [u \in Upd |-> NoUpdatable]
    /\ toUpdate = [src \in Sources |-> [k \in Keys |-> << >>]]
    /\ \E im \in BOOLEAN :
          mgr = [valid |-> FALSE, inRunSection |-> FALSE, runScheduled |-> FALSE,
                 callStack |-> << >>, reactionsToUpdate |-> << >>,
                 enabled |-> TRUE, immediateReaction |-> im, prototypes |-> TRUE]
    /\ \E pa \in {Absent, 1}, ca \in {Absent, 1} :
          heap = [NoHeap EXCEPT
                    !.own["g"]["a"] = 1, !.own["g"]["b"] = 0,
                    !.own["p"]["a"] = pa, !.own["c"]["a"] = ca,
                    !.proto["p"] = "g", !.proto["c"] = "p",
                    !.observables = [o \in Objs |-> ObjIdx(o) + 1],
                    !.targets = << "g", "p", "c" >>]
    /\ timers = 0
    /\ ctl = << >>
    /\ raising = "none"
    /\ hist = InitHist(MaxOpsProto)

ProtoSpec == InitProto /\ [][NextProto]_vars

\* The programs whose functions watch records: g = {a: p}, p = {a: g, b: f}
\* or p = {a: null, b: f} with f a function, c = {a: 0, b: 0} or c = [], none
\* wrapped yet
NextWatch ==
    \/ Set \/ SetAt \/ SetSame \/ DeleteAt
    \/ Reaction(WatchFns) \/ Tick \/ StepAt \/ Unwind

InitWatchWith(n) ==
    /\ data = InitData
    /\ upd = [u \in Upd |-> NoUpdatable]
    /\ toUpdate = [src \in Sources |-> [k \in Keys |-> << >>]]
    /\ \E im \in BOOLEAN :
          mgr = [valid |-> FALSE, inRunSection |-> FALSE, runScheduled |-> FALSE,
                 callStack |-> << >>, reactionsToUpdate |-> << >>,
                 enabled |-> TRUE, immediateReaction |-> im, prototypes |-> FALSE]
    /\ \E pa \in {Ref("g"), Null}, seq \in BOOLEAN :
          heap = [NoHeap EXCEPT
                    !.own["g"]["a"] = Ref("p"),
                    !.own["p"]["a"] = pa, !.own["p"]["b"] = Callable,
                    !.own["c"] = IF seq
                                 THEN [k \in HKeys |-> IF k = "length" THEN 0 ELSE Absent]
                                 ELSE [k \in HKeys |-> IF k = "length" THEN Absent ELSE 0],
                    !.isArray["c"] = seq]
    /\ timers = 0
    /\ ctl = << >>
    /\ raising = "none"
    /\ hist = InitHist(n)

WatchSpec == InitWatchWith(MaxOpsWatch) /\ [][NextWatch]_vars

\* The programs that wrap the same records and read them outside any function
NextWrap == SetAt \/ SetSame \/ DeleteAt \/ Observable \/ ReadAt

WrapSpec == InitWatchWith(MaxOpsWrap) /\ [][NextWrap]_vars

\* The programs with a user function that throws
NextFail == UserOp \/ Computed(FailFns) \/ Reaction(FailFns) \/ Tick \/ Step \/ ExecThrow

FailSpec == InitWith(MaxOpsFail) /\ [][NextFail]_vars

\* The programs of two reactions that read the same chain of computed
\* properties: computed(d, "k1", cond) and computed(d, "k2", via) are done
NextFork == Set \/ Demand \/ Run \/ Reaction(ForkFns) \/ Tick \/ PureStep

InitFork ==
    /\ data = InitData
    /\ upd = [u \in Upd |->
                 CASE u = "k1" -> [NoUpdatable EXCEPT !.fn = "cond"]
                   [] u = "k2" -> [NoUpdatable EXCEPT !.fn = "via"]
                   [] OTHER -> NoUpdatable]
    /\ toUpdate = [src \in Sources |-> [k \in Keys |-> << >>]]
    /\ \E im \in BOOLEAN :
          mgr = [valid |-> FALSE, inRunSection |-> FALSE, runScheduled |-> FALSE,
                 callStack |-> << >>, reactionsToUpdate |-> << >>,
                 enabled |-> TRUE, immediateReaction |-> im, prototypes |-> FALSE]
    /\ heap = NoHeap
    /\ timers = 0
    /\ ctl = << >>
    /\ raising = "none"
    /\ hist = InitHist(MaxOpsFork)

ForkSpec == InitFork /\ [][NextFork]_vars

\* The programs whose user functions and batch actions call run(),
\* runDeferred() and reaction() themselves
RunNest ==
    /\ CanStart
    /\ \E act \in NestActions :
          LET o == [Op("run", NoKey, NoFn, TRUE, FALSE) EXCEPT !.prog = act]
          IN  Commit(run(BeginOp(St, o), act))

NextNest ==
    \/ Set \/ RunNest \/ SetEnabled \/ Reaction(NestFns) \/ Tick
    \/ ExecSkip \/ ExecGet \/ ExecSet \/ ExecCall \/ Return
    \/ ActionDone \/ RunLoop \/ RunDrain \/ RunDrained

NestSpec == InitWith(MaxOpsNest) /\ [][NextNest]_vars

TypeOK ==
    /\ data \in [DataKeys -> Vals]
    /\ timers \in Nat
    /\ raising \in {"none", "IterationLimit", "TypeError", "Error"}
    /\ \A u \in Upd : upd[u].fn \in AllFns \cup {NoFn}

-----------------------------------------------------------------------------
(* What a user function returns on the current data: the reference the     *)
(* cached values are compared with.  It reads d directly: no wrapper, no   *)
(* cache, a computed property is evaluated by evaluating its function.     *)

RECURSIVE evalProg(_, _, _, _)
evalProg(s, prog, pc, acc) ==
    IF pc > Len(prog) THEN acc
    ELSE LET in == prog[pc] IN
         IF in.op # "get" \/ (in.cond /\ ~Truthy(acc))
         THEN evalProg(s, prog, pc + 1, acc)
         ELSE LET v == IF IsAccessor(s, in.key)
                       THEN evalProg(s, Prog(s.upd[in.key].fn), 1, 0)
                       ELSE valueOf(s, in.key)
              IN  evalProg(s, prog, pc + 1, Plus(acc, v))

Eval(s, f) == evalProg(s, Prog(f), 1, 0)

Created == {u \in Upd : upd[u].fn # NoFn}
Registered == {u \in Reactions : upd[u].fn # NoFn}
AtRest == Idle(St)

-----------------------------------------------------------------------------
(* C1 *)

\* C1 (freshness): when the user functions perform no writes (PureSpec), in
\* every state every valid Updatable holds the value its function returns on
\* the current data, and a demand of a computed property that has returned
\* returned that value.
Fresh ==
    /\ \A u \in Created : upd[u].valid => upd[u].value = Eval(St, upd[u].fn)
    /\ AtRest /\ hist.op.kind = "demand" => hist.result = Eval(St, hist.op.fn)

\* a demand has returned the value of a chain of two computed properties
\* that was recomputed after a write changed d.a
FreshWitness ==
    /\ AtRest /\ hist.op.kind = "demand" /\ hist.op.key = "k2"
    /\ hist.execs["k1"] = 1 /\ hist.execs["k2"] = 1
    /\ upd["k1"].valid /\ upd["k2"].valid
    /\ data["a"] # InitData["a"]

-----------------------------------------------------------------------------
(* C2 *)

\* C2 (laziness): the function of a computed property is executed only when
\* the property was never computed or a key read by its most recent
\* execution was written with another value (or deleted) since then.
Lazy ==
    \A k \in CompKeys : hist.everRun[k] => hist.justified[k]

\* a computed property was executed a second time
LazyWitness ==
    /\ AtRest /\ hist.op.kind = "demand" /\ hist.op.key = "k1"
    /\ hist.execs["k1"] = 1 /\ hist.changed["k1"] = {}
    /\ data["a"] # InitData["a"] /\ hist.justified["k1"]

-----------------------------------------------------------------------------
(* C3 *)

RECURSIVE Upstream(_, _)
\* the Updatables u demanded during its last execution, directly or
\* transitively (n bounds the length of the chains)
Upstream(u, n) ==
    IF n = 0 THEN {}
    ELSE hist.lastDemands[u] \cup
         UNION {Upstream(v, n - 1) : v \in hist.lastDemands[u]}

\* C3 (no valid Updatable over an invalid upstream): when no call is in
\* progress, no Updatable is valid while an Updatable it demanded during its
\* last execution, directly or transitively, is invalid.
ValidOverValid ==
    AtRest =>
        \A u \in Created : upd[u].valid =>
            \A v \in Upstream(u, Cardinality(Upd)) : upd[v].valid

-----------------------------------------------------------------------------
(* C4 *)

\* C4 (reaction counts in deferred mode): reaction() executes nothing before
\* it returns; a pass of run() that has returned executed once every
\* registered reaction that had never been executed or had read a key that
\* was changed since, and executed no other reaction.
DeferredCounts ==
    AtRest /\ ~mgr.immediateReaction =>
        /\ hist.op.kind = "reaction" => \A u \in Upd : hist.execs[u] = 0
        /\ hist.op.kind \in {"run", "tick"} /\ hist.afterRun =>
               \A r \in Registered :
                   hist.execs[r] = IF r \in hist.owed THEN 1 ELSE 0

\* a pass re-executed a reaction once after two writes to keys it had read
DeferredCountsWitness ==
    /\ AtRest /\ ~mgr.immediateReaction
    /\ hist.op.kind = "run" /\ hist.op.act /\ hist.afterRun
    /\ \E r \in Registered :
          /\ hist.execs[r] = 1 /\ r \in hist.owed
          /\ {"a", "b"} \subseteq hist.wrote

-----------------------------------------------------------------------------
(* C5 *)

\* C5 (automatic re-run): in deferred mode with the engine enabled, when a
\* write outside a batch that turned a reaction from valid to invalid has
\* returned, a callback of setTimeout is pending: only such a callback runs
\* the pass that re-executes the reaction without the user calling run().
TickPending ==
    /\ AtRest /\ hist.op.kind \in {"set", "delete"}
    /\ ~mgr.immediateReaction /\ mgr.enabled
    /\ hist.turned \cap Reactions # {}
    => timers > 0

\* such a write after the engine was disabled and enabled again
TickPendingWitness ==
    /\ AtRest /\ hist.op.kind = "set"
    /\ ~mgr.immediateReaction /\ mgr.enabled
    /\ hist.turned \cap Reactions # {}
    /\ timers > 0

-----------------------------------------------------------------------------
(* C6 *)

-----------------------------------------------------------------------------
(* C7 *)

\* the batch action of run(action) has been called and has not returned
InAction ==
    hist.op.kind = "run" /\ \E i \in 1..Len(ctl) : ctl[i].t = "act"

-----------------------------------------------------------------------------
(* C8 *)

\* the writes of a batch action have been applied to d
Applied(act) ==
    \A i \in 1..Len(act) :
        (\A j \in (i + 1)..Len(act) : act[j].key # act[i].key) =>
            data[act[i].key] = act[i].val

-----------------------------------------------------------------------------
(* C9 *)

\* C9 (disabled engine): a step taken while options.enabled is false starts
\* no execution of a reaction function and schedules no callback of
\* setTimeout, whatever the step is: a registration of a reaction, a write
\* or a delete through the wrapper, run(), runDeferred(), a callback firing.
Disabled ==
    [][~mgr.enabled =>
          /\ \A r \in Reactions : upd'[r].computing => upd[r].computing
          /\ \A r \in Reactions : hist'.execs[r] = 0
          /\ timers' <= timers]_vars

\* with the engine disabled, a write has invalidated a reaction that read the
\* written key: the reaction has not been executed and no callback is pending
DisabledWitness ==
    /\ AtRest /\ ~mgr.enabled
    /\ hist.op.kind = "set" /\ hist.op.changed
    /\ hist.op.readers # {} /\ hist.op.readers \subseteq hist.turned
    /\ \A r \in Reactions : hist.execs[r] = 0
    /\ timers = 0

-----------------------------------------------------------------------------
(* C10 *)

\* the function of the self-looping reaction is being executed
LoopRunning ==
    \E r \in Reactions : upd[r].fn = "loop" /\ upd[r].computing

\* C10 (run() terminates): every call in progress returns, and a reaction
\* pass that executes a reaction which writes a new value to a key it reads
\* ends by raising IterationLimit to the caller of run().
RunTerminates ==
    /\ ~AtRest ~> AtRest
    /\ LoopRunning ~> (AtRest /\ hist.err = "IterationLimit")

\* run() has raised IterationLimit after executing the self-looping reaction
\* once more than maxIterations times
RunTerminatesWitness ==
    /\ AtRest /\ hist.err = "IterationLimit"
    /\ \E r \in Reactions :
          upd[r].fn = "loop" /\ hist.execs[r] = maxIterations + 1

-----------------------------------------------------------------------------
(* C11 *)

\* C11 (cross reference): no exception is ever raised; the call of an
\* Updatable that is computing emits the warning and hands undefined to the
\* function that demanded it, which goes on (undefined + x is NaN); every
\* call in progress returns; and when none is in progress no Updatable is
\* computing and the call stack is empty.
CrossReference ==
    /\ [](raising = "none" /\ hist.err = "none")
    /\ [][hist'.warned = hist.warned + 1 =>
             /\ Len(ctl') = Len(ctl)
             /\ Top(St)'.pc = Top(St).pc + 1
             /\ Top(St)'.acc = Plus(Top(St).acc, Undef)
             /\ upd' = upd]_vars
    /\ [](AtRest => /\ \A u \in Upd : ~upd[u].computing
                     /\ mgr.callStack = << >>)
    /\ ~AtRest ~> AtRest

\* the demand of k2 has returned after k1, demanded by k2, demanded k2 again
CrossReferenceWitness ==
    /\ AtRest /\ hist.op.kind = "demand" /\ hist.op.key = "k2"
    /\ upd["k1"].fn = "ring" /\ upd["k2"].fn = "via"
    /\ hist.warned = 1
    /\ hist.execs["k1"] = 1 /\ hist.execs["k2"] = 1
    /\ hist.result = NaN

-----------------------------------------------------------------------------
(* C12 *)

\* the next step is a write of a computed getter or of a reaction
DerivedWrite ==
    /\ InBody /\ Top(St).t = "call"
    /\ Instr.op \in {"setinc", "setacc", "put"}

-----------------------------------------------------------------------------
(* C13 *)

\* the operation that has returned was a set through the wrapper of g, p or c
\* of the value the key has: $o.k = $o.k, or $o.k = v with v the value of o.k
EqualSet ==
    /\ AtRest
    /\ \/ hist.op.kind = "setSame"
       \/ hist.op.kind = "setAt" /\ hist.pre.val = hist.pre.old

\* the key set is the length of a sequence
OfLength == heap.isArray[hist.pre.obj] /\ hist.pre.key = "length"

-----------------------------------------------------------------------------
(* C14 *)

RECURSIVE Ancestors(_)
\* the records on the chain of prototypes of o, o excluded
Ancestors(o) ==
    IF heap.proto[o] = NoObj THEN {}
    ELSE {heap.proto[o]} \cup Ancestors(heap.proto[o])

\* the records on the chain strictly below P, down to and including C
Below(P, C) == ({C} \cup Ancestors(C)) \ ({P} \cup Ancestors(P))

\* the most recent execution of u read key k through the wrapper of C and
\* through no other wrapper
ReadThrough(u, C, k) ==
    /\ upd[u].fn # NoFn
    /\ {o \in Objs : << o, k >> \in hist.pre.readsAt[u]} = {C}

\* C14 (inherited keys, prototypes = true): after a value-changing set of key
\* K through the wrapper of P, an Updatable whose most recent execution read
\* K through a descendant C of P has been invalidated if and only if no
\* record strictly below P down to and including C has K as an own key.
InheritedWrite ==
    AtRest /\ hist.op.kind = "setAt" /\ hist.pre.val # hist.pre.old =>
        \A u \in Upd, C \in Objs :
            ReadThrough(u, C, hist.pre.key) /\ hist.pre.obj \in Ancestors(C) =>
                (u \in hist.opInval <=>
                    \A o \in Below(hist.pre.obj, C) :
                        ~hasOwnProperty(heap, o, hist.pre.key))

\* a set of p.a has returned; the reaction () => $c.a had read a through c,
\* which has its own a: the reaction was not invalidated
InheritedWriteWitness ==
    /\ AtRest /\ hist.op.kind = "setAt" /\ hist.pre.val # hist.pre.old
    /\ hist.pre.obj = "p" /\ hist.pre.key = "a"
    /\ hasOwnProperty(heap, "c", "a")
    /\ \E u \in Reactions : /\ upd[u].fn = "inherit"
                            /\ ReadThrough(u, "c", "a")
                            /\ u \notin hist.opInval

-----------------------------------------------------------------------------
(* C15 *)

\* the records that are values of own keys of o
Children(o) ==
    {x \in Objs : \E k \in {"a", "b"} :
        \/ heap.own[o][k] = Ref(x)
        \/ IsWrapper(heap.own[o][k]) /\ TargetOf(St, heap.own[o][k]) = x}

RECURSIVE ReachFrom(_)
\* the records reachable from the records of R, those of R included
ReachFrom(R) ==
    LET N == R \cup UNION {Children(o) : o \in R}
    IN  IF N = R THEN R ELSE ReachFrom(N)

\* record o is a prototype of S, or nested in S, or S is nested in o
Related(o, S) ==
    o \in ({S} \cup Ancestors(S) \cup ReachFrom({S})) \/ S \in ReachFrom({o})

\* the operation that has returned set a key of a record of g, p, c to another
\* value (a key the record did not have included), or deleted a key
Mutation ==
    /\ AtRest
    /\ \/ hist.op.kind = "deleteAt"
       \/ hist.op.kind = "setAt" /\ hist.pre.val # hist.pre.old

\* the most recent execution of u read the watch key of S and, of the records
\* g, p, c, nothing else
WatchedOnly(u, S) ==
    /\ upd[u].fn # NoFn
    /\ hist.pre.readsAt[u] = {<< S, watchKey >>}

\* C15 (whole-record watch): a reaction whose most recent execution read
\* wrapper[watchKey] of S is invalidated by every set of a new key, every
\* value-changing set and every delete on S through its wrapper, and by no
\* write to a record unrelated to S.
WholeWatch ==
    Mutation =>
        \A u \in Reactions :
            /\ upd[u].fn # NoFn /\ << hist.pre.obj, watchKey >> \in hist.pre.readsAt[u]
                  => u \in hist.opInval
            /\ \A S \in Objs :
                  WatchedOnly(u, S) /\ ~Related(hist.pre.obj, S)
                      => u \notin hist.opInval

\* a set of the new key b of g has returned and has invalidated a valid
\* reaction that had read $g.$$watch
WholeWatchWitness ==
    /\ Mutation /\ hist.op.kind = "setAt"
    /\ hist.pre.obj = "g" /\ hist.pre.key = "b" /\ ~hist.pre.own
    /\ \E u \in Reactions : /\ WatchedOnly(u, "g")
                            /\ u \in hist.turned

-----------------------------------------------------------------------------
(* C16 *)

\* the most recent execution of u read wrapper[watchDeepKey] of S
DeepWatcher(u, S) ==
    upd[u].fn # NoFn /\ << S, watchDeepKey >> \in hist.readsAt[u]

\* C16 (deep watch): reading wrapper[watchDeepKey] in a reaction ends without
\* an exception, on graphs with cycles too; while the reaction is valid it is
\* in the list of the watch key of every record reachable from the source;
\* and a mutation of a key of a reachable record invalidates the reaction and,
\* in immediate mode, executes it again before the mutation returns.
DeepWatch ==
    /\ raising = "none" /\ hist.err = "none"
    /\ \A u \in Reactions, S \in Objs :
          AtRest /\ DeepWatcher(u, S) /\ upd[u].valid =>
              \A o \in ReachFrom({S}) : u \in Range(ListOf(St, o, watchKey))
    /\ \A u \in Reactions, S \in Objs :
          /\ Mutation
          /\ upd[u].fn # NoFn /\ << S, watchDeepKey >> \in hist.pre.readsAt[u]
          /\ hist.pre.valid[u]
          /\ hist.pre.obj \in ReachFrom({S})
          => /\ u \in hist.opInval
             /\ mgr.immediateReaction => hist.execs[u] > 0

\* on the cycle g.a = p, p.a = g: a set of p.a has returned and has
\* invalidated the valid reaction that had read $g.$$watchDeep
DeepWatchWitness ==
    /\ Mutation /\ hist.pre.obj = "p" /\ hist.pre.old = Ref("g")
    /\ \E u \in Reactions : /\ upd[u].fn = "deep"
                            /\ << "g", watchDeepKey >> \in hist.pre.readsAt[u]
                            /\ u \in hist.turned

-----------------------------------------------------------------------------
(* C17 *)

\* a set of a key of d to another value, made outside any function, has
\* returned
ValueSet == AtRest /\ hist.op.kind = "set" /\ hist.op.changed

\* u is a reaction whose function reads the own accessor k1 of d
ReadsAccessor(u) ==
    u \in Reactions /\ upd[u].fn = "via" /\ hist.everRun[u]

\* C17 (own accessors): a reaction that reads an own accessor through the
\* wrapper is executed again after a value-changing write to a key that the
\* getter (or the reaction) read in its most recent execution (immediate
\* mode, engine enabled: before the write returns), and a write to a key that
\* neither of them read does not invalidate it.
AccessorReads ==
    ValueSet =>
        \A u \in Reactions :
            ReadsAccessor(u) =>
                /\ u \in hist.op.readers /\ mgr.enabled /\ mgr.immediateReaction
                      => hist.execs[u] > 0
                /\ u \notin hist.op.readers => u \notin hist.opInval

\* a set of d.a has returned; the reaction () => d.k1 + d.c, whose getter
\* k1 had read a, was valid and has been executed again
AccessorReadsWitness ==
    /\ ValueSet /\ hist.op.key = "a" /\ mgr.immediateReaction
    /\ \E u \in Reactions : /\ ReadsAccessor(u)
                            /\ u \in hist.op.readers
                            /\ u \in hist.turned
                            /\ hist.execs[u] = 1 /\ hist.execs["k1"] = 1

-----------------------------------------------------------------------------
(* C18 *)

\* a call observable(v) has returned
Wrapped == AtRest /\ hist.op.kind = "observable"

\* C18 (stable identity): observable(S) returns the wrapper manager.observables
\* holds for S, which, once there, is never replaced, so every call returns
\* the same wrapper; observable(wrapper) returns that wrapper; the wrappers
\* of distinct sources are distinct; observable(null) returns null.
Identity ==
    /\ [][\A o \in Objs : heap.observables[o] # 0 =>
                heap'.observables[o] = heap.observables[o]]_vars
    /\ [](Wrapped /\ IsRef(hist.pre.val) =>
              /\ heap.observables[ObjOf(hist.pre.val)] # 0
              /\ hist.result = Wrapper(heap.observables[ObjOf(hist.pre.val)]))
    /\ [](Wrapped /\ IsWrapper(hist.pre.val) => hist.result = hist.pre.val)
    /\ [](Wrapped /\ hist.pre.val = Null => hist.result = Null)
    /\ [](\A o1, o2 \in Objs :
              heap.observables[o1] # 0 /\ heap.observables[o1] = heap.observables[o2]
                  => o1 = o2)
    /\ [](\A o \in Objs :
              heap.observables[o] # 0 => heap.targets[heap.observables[o]] = o)

\* observable(g) has returned the wrapper an earlier operation had made for
\* g, after p had been wrapped too
IdentityWitness ==
    /\ Wrapped /\ hist.pre.val = Ref("g")
    /\ hist.result = Wrapper(1) /\ heap.targets = << "g", "p" >>
    /\ hist.budget = 0

-----------------------------------------------------------------------------
(* C19 *)

\* isObservable($o.k) has returned or raised; hist.pre.old is the value of o.k
WasRead == AtRest /\ hist.op.kind = "readAt"

\* the value is a record or a sequence, or the wrapper of one
IsRecord(v) == IsRef(v) \/ IsWrapper(v)

\* C19 (reads through a wrapper): $o.k for a key whose value is a record or
\* a sequence is that value's wrapper, and isObservable is true of it; for
\* every other value (number, undefined, null, function) $o.k is the value
\* itself and isObservable answers false.
ReadsWrap ==
    WasRead =>
        /\ hist.err = "none"
        /\ IsRef(hist.pre.old) =>
              /\ hist.observed
              /\ hist.result = Wrapper(heap.observables[ObjOf(hist.pre.old)])
        /\ IsWrapper(hist.pre.old) =>
              hist.observed /\ hist.result = hist.pre.old
        /\ ~IsRecord(hist.pre.old) =>
              ~hist.observed /\ hist.result = hist.pre.old

\* isObservable($g.a) has answered true for the wrapper of the nested record
\* p, which the read made
ReadsWrapWitness ==
    /\ WasRead /\ hist.pre.obj = "g" /\ hist.pre.key = "a"
    /\ hist.pre.old = Ref("p") /\ hist.err = "none"
    /\ hist.observed /\ hist.result = Wrapper(heap.observables["p"])
    /\ heap.targets = << "g", "p" >>

-----------------------------------------------------------------------------
(* C20 *)

\* this step is the call reaction(f, runIt) of the user
ReactionCalled ==
    hist'.op.kind = "reaction" /\ hist'.budget = hist.budget - 1

\* this step is a read of the computed property d.k outside any function,
\* with the Updatable of k valid
ValidDemanded ==
    /\ hist'.op.kind = "demand" /\ hist'.budget = hist.budget - 1
    /\ upd[hist'.op.key].valid

\* C20 (interning): the Manager's cache never holds two Updatables of one
\* function; makeUpdatable called again with a function and the same host
\* (reaction(f) twice: the host is the Manager) returns the Updatable it
\* made the first time and leaves every Updatable as it is; called with the
\* host left out it does not find the Updatable the same function has with
\* host d (computed(d, k, f)), but makes one; called by the get trap with
\* the getter of a computed property, which is an Updatable, it returns that
\* Updatable: a valid one answers from its cache and nothing changes.
Interning ==
    /\ [](\A u1, u2 \in Reactions :
              u1 # u2 /\ upd[u1].fn # NoFn => upd[u1].fn # upd[u2].fn)
    /\ [][ReactionCalled /\ Interned(St, hist'.op.fn) # {} =>
              /\ ~hist'.op.fresh
              /\ upd[hist'.op.key].fn = hist'.op.fn
              /\ upd' = upd]_vars
    /\ [][ReactionCalled /\ Interned(St, hist'.op.fn) = {} =>
              /\ hist'.op.fresh
              /\ hist'.op.key \in Reactions /\ upd[hist'.op.key].fn = NoFn
              /\ upd' = [upd EXCEPT ![hist'.op.key] =
                            [NoUpdatable EXCEPT !.fn = hist'.op.fn, !.hook = TRUE]]]_vars
    /\ [][ValidDemanded =>
              /\ upd' = upd /\ ctl' = << >>
              /\ hist'.result = upd[hist'.op.key].value]_vars

\* reaction(f) has been called a second time for the function that is also
\* the getter of d.k1: the Manager holds one Updatable of it, already
\* executed, and d holds another
InterningWitness ==
    /\ AtRest /\ hist.op.kind = "reaction" /\ ~hist.op.fresh
    /\ hist.op.fn = "cond" /\ upd["k1"].fn = "cond"
    /\ upd[hist.op.key].fn = "cond" /\ hist.everRun[hist.op.key]
    /\ Cardinality(Registered) = 1

-----------------------------------------------------------------------------
(* C21 *)

\* the Updatables of the calls of user functions in progress, outermost first
InProgress ==
    LET calls == SelectSeq(ctl, LAMBDA fr : fr.t = "call")
    IN  [i \in 1..Len(calls) |-> calls[i].u]

\* C21 (exceptions): an exception thrown by a user function leaves every
\* call in progress and reaches the caller of the operation (the demand, the
\* run(), the write that started the pass, the callback of setTimeout); at
\* every moment the call stack holds exactly the Updatables whose functions
\* are being executed, so each call that ends, by the exception too, leaves
\* the call stack as it found it; and when the operation has ended
\* inRunSection is false, no Updatable is computing and the call stack is
\* empty as before the operation.
Thrown ==
    /\ [][raising = "Error" =>
              \/ raising' = "Error" /\ Len(ctl') < Len(ctl)
              \/ ctl' = << >> /\ raising' = "none" /\ hist'.err = "Error"]_vars
    /\ [](mgr.callStack = InProgress)
    /\ [](\A u \in Upd : upd[u].computing <=> u \in Range(InProgress))
    /\ [](AtRest => ~mgr.inRunSection /\ mgr.callStack = << >>)

\* the write d.b = 1 started a pass whose reaction demanded the computed
\* property k1, the function of k1 threw, and the write raised the exception
ThrownWitness ==
    /\ AtRest /\ hist.err = "Error" /\ hist.op.kind = "set"
    /\ upd["k1"].fn = "fail" /\ hist.execs["k1"] = 1
    /\ \E r \in Reactions : upd[r].fn = "via" /\ hist.execs[r] = 1

-----------------------------------------------------------------------------
(* C22 *)

\* C22 (collapse), as the spec states it: in the pass of an operation a
\* reaction is executed at most once, unless it was invalidated while its
\* own function was being executed.
OncePerPass ==
    \A u \in Reactions : hist.execs[u] > 1 => u \in hist.selfInval

\* C22 (collapse), amended: in the pass of an operation a reaction is
\* executed at most once, however many writes hit the keys it read before
\* the pass, unless it was invalidated during the pass by a write made by a
\* user function the pass executed (its own or that of another Updatable).
Collapse ==
    \A u \in Reactions : hist.execs[u] > 1 => u \in hist.cascaded

\* two writes of a batch action changed keys a reaction had read, and the
\* pass that followed executed the reaction once
CollapseWitness ==
    /\ AtRest /\ hist.op.kind = "run" /\ hist.afterRun
    /\ {"a", "b"} \subseteq hist.wrote
    /\ \E u \in Reactions :
          /\ upd[u].fn = "cond" /\ u \in hist.due
          /\ u \in hist.turned /\ hist.execs[u] = 1

-----------------------------------------------------------------------------
(* C23 *)

\* this step is a write of another value to key k of d, made by the function
\* of reaction w, or of a computed property it demanded, in a pass of run()
CascadeWrite(w, k) ==
    /\ InBody /\ Top(St).t = "call"
    /\ Instr.op \in {"setinc", "setacc"} /\ Instr.key = k
    /\ mgr.inRunSection /\ mgr.callStack[1] = w
    /\ data'[k] # data[k]

\* C23 (cascade): a write a reaction makes during a pass to a key another
\* reaction is subscribed to leaves that reaction invalid and pending and
\* the global valid flag false, so the loop of the pass goes on; and when a
\* pass has returned normally every registered reaction is valid, none is
\* pending and none was invalidated after its most recent execution began:
\* the other reaction was executed again before run() returned.
Cascade ==
    /\ [][\A w \in Reactions, k \in DataKeys : CascadeWrite(w, k) =>
              \A r \in (Reactions \ {w}) \cap Range(toUpdate["d"][k]) :
                  /\ ~upd'[r].valid /\ r \in Range(mgr'.reactionsToUpdate)
                  /\ ~mgr'.valid]_vars
    /\ [](AtRest /\ hist.afterRun /\ hist.err = "none" =>
              \A r \in Registered :
                  /\ upd[r].valid
                  /\ r \notin Range(mgr.reactionsToUpdate)
                  /\ r \notin hist.inval)

\* a pass has returned normally in which a reaction, executed first, was
\* invalidated by the write of the reaction executed after it, and was
\* executed again
CascadeWitness ==
    /\ AtRest /\ hist.afterRun /\ hist.err = "none"
    /\ \E r \in Registered :
          /\ upd[r].fn = "cond" /\ r \in hist.cascaded
          /\ hist.execs[r] = 2 /\ upd[r].valid
          /\ r \notin Range(mgr.reactionsToUpdate)

-----------------------------------------------------------------------------
(* C24 *)

\* C24 (order of a pass): the reactions whose functions an iteration
\* executes are reactions of the pending set as it was when the iteration
\* began, each executed once and in the order of that set; so a reaction
\* added to the pending set during the iteration is executed by a later
\* iteration.
InOrder ==
    hist.iterRan = SelectSeq(hist.iterSet, LAMBDA u : u \in Range(hist.iterRan))

\* the second iteration of a pass executes the reaction that the first
\* iteration executed first and the reaction executed after it invalidated
InOrderWitness ==
    /\ ctl # << >> /\ Top(St).t = "run" /\ Top(St).it = 2
    /\ \E r, w \in Registered :
          /\ upd[r].fn = "cond" /\ upd[w].fn = "copy"
          /\ hist.iterSet = << r >> /\ hist.iterRan = << r >>
          /\ r \in hist.cascaded
          /\ hist.execs[r] = 2 /\ hist.execs[w] = 1

-----------------------------------------------------------------------------
(* C25 *)

\* the keys of d whose subscription list holds u
SubscribedTo(u) == {k \in Keys : u \in Range(toUpdate["d"][k])}

\* C25 (exact subscriptions): when an Updatable has finished an execution
\* the subscription lists that hold it are those of the keys that execution
\* read.
Exact ==
    \A u \in Created :
        hist.everRun[u] /\ ~upd[u].computing => SubscribedTo(u) = hist.direct[u]

\* a second execution of self => (self.a ? self.a + self.b : self.a) + self.c
\* has finished, and it read a and c only
ExactWitness ==
    /\ AtRest
    /\ \E u \in Created :
          /\ upd[u].fn = "cond" /\ upd[u].valid /\ hist.execs[u] = 1
          /\ hist.direct[u] = {"a", "c"}

-----------------------------------------------------------------------------
(* C26 *)

\* this step is a demand of the valid Updatable V made by the function of c
CacheHit(c, V) ==
    /\ InBody /\ Instr.op = "get" /\ (Instr.cond => Truthy(Top(St).acc))
    /\ Instr.key = V /\ IsAccessor(St, V) /\ upd[V].valid
    /\ mgr.callStack # << >> /\ Last(mgr.callStack) = c

\* C26 (forked consumers): a demand of a valid Updatable V records the
\* consumer in V.deps; every valid Updatable whose most recent execution
\* demanded V, valid too, is in V.deps; and a write that changes a key leaves
\* no reaction that read the key, through whatever chain of computed
\* properties, valid without executing it again: in immediate mode each of
\* them has been executed once when the write returns, in deferred mode
\* each of them is invalid and pending.
Forked ==
    /\ [][\A c \in Upd, V \in CompKeys :
              CacheHit(c, V) => c \in Range(upd'[V].deps) /\ upd'[V].valid]_vars
    /\ [](\A c \in Created, V \in CompKeys :
              upd[c].valid /\ upd[V].valid /\ V \in hist.lastDemands[c]
                  => c \in Range(upd[V].deps))
    /\ [](AtRest /\ hist.op.kind = "set" /\ hist.op.changed =>
              \A r \in hist.op.readers :
                  IF mgr.immediateReaction
                  THEN hist.execs[r] = 1 /\ upd[r].valid
                  ELSE ~upd[r].valid /\ r \in Range(mgr.reactionsToUpdate))

\* d.a = 0 has returned: two reactions that read the chain k2 -> k1, of
\* which the second found k2 valid, have both been executed again, once
ForkedWitness ==
    /\ AtRest /\ hist.op.kind = "set" /\ hist.op.key = "a" /\ hist.op.changed
    /\ mgr.immediateReaction
    /\ Cardinality(hist.op.readers) = 2
    /\ \A r \in Registered :
          upd[r].fn \in ForkFns /\ hist.execs[r] = 1 /\ upd[r].valid
    /\ hist.execs["k2"] = 1 /\ hist.execs["k1"] = 1

-----------------------------------------------------------------------------
(* C27 *)

\* C27 (iteration limit): a call of run() performs at most maxIterations
\* iterations of its loop, and executes a reaction that invalidates itself
\* in every execution at most maxIterations times.
Bounded ==
    /\ \A i \in DOMAIN ctl : ctl[i].t = "run" => ctl[i].it <= maxIterations
    /\ \A u \in Reactions : hist.execs[u] <= maxIterations

\* run() has raised IterationLimit after executing the reaction
\* () => d.a = d.a + 2 in every iteration of its loop
BoundedWitness ==
    /\ AtRest /\ hist.err = "IterationLimit"
    /\ \E u \in Registered :
          upd[u].fn = "loop" /\ hist.execs[u] >= maxIterations /\ u \in hist.selfInval

-----------------------------------------------------------------------------
(* C28 *)

\* C28 (global valid flag): whenever no call is in progress, manager.valid
\* is true only if every registered reaction is valid and none is in
\* reactionsToUpdate.
ValidFlag ==
    AtRest /\ mgr.valid =>
        \A r \in Registered : upd[r].valid /\ r \notin Range(mgr.reactionsToUpdate)

\* run() has just been aborted by IterationLimit
ValidFlagWitness ==
    /\ AtRest /\ hist.err = "IterationLimit" /\ hist.op.kind = "run"
    /\ \E r \in Registered : ~upd[r].valid /\ r \in Range(mgr.reactionsToUpdate)

-----------------------------------------------------------------------------
(* C29 *)

\* C29 (one deferred run): a callback of setTimeout is scheduled only when
\* none is waiting to fire, so at most one is outstanding.
OneTick ==
    /\ [][timers' > timers => timers = 0]_vars
    /\ [](timers <= 1)

\* runDeferred() has scheduled a callback, none was waiting
OneTickWitness ==
    /\ AtRest /\ hist.op.kind = "runDeferred" /\ timers = 1 /\ mgr.runScheduled

-----------------------------------------------------------------------------
(* C30 *)

\* a call of run() is in progress: one of its frames is on the control stack
InRun(c) == \E i \in 1..Len(c) : c[i].t = "run"

\* the frame on top performs a write
Writing == InBody /\ Instr.op \in {"setinc", "setacc", "put"}

\* C30 (run section): inRunSection is true as long as a call of run() is in
\* progress, whatever the batch action and the reactions call meanwhile, and
\* a write made while a call of run() is in progress neither starts a pass
\* nor schedules a callback of setTimeout.
RunSection ==
    /\ [](InRun(ctl) => mgr.inRunSection)
    /\ [][InRun(ctl) /\ Writing => timers' = timers /\ Len(ctl') = Len(ctl)]_vars

\* inside a call of run(), a batch action or a reaction has called run(),
\* runDeferred() or reaction(), the call has returned, and the write that
\* follows it is done
RunSectionWitness ==
    /\ raising = "none" /\ InRun(ctl)
    /\ \E i \in 2..Len(ctl) :
          /\ ctl[i].t \in {"call", "act"}
          /\ InRun(SubSeq(ctl, 1, i - 1))
          /\ AtWrite(ctl[i])
          /\ \E j \in 1..(ctl[i].pc - 2) :
                ctl[i].prog[j].op \in {"run", "runDeferred", "reaction"}

-----------------------------------------------------------------------------
(* C31 *)

RECURSIVE Invoked(_)
\* the Updatables whose function bodies are in progress, outermost first
Invoked(c) ==
    IF c = << >> THEN << >>
    ELSE IF Last(c).t = "call" THEN Append(Invoked(Front(c)), Last(c).u)
    ELSE Invoked(Front(c))

\* C31 (call stack): callStack holds exactly the Updatables that are
\* computing, each once, in the order in which they were invoked, and when no
\* call is in progress it is empty and no Updatable is computing.
StackDiscipline ==
    /\ Range(mgr.callStack) = {u \in Upd : upd[u].computing}
    /\ Cardinality(Range(mgr.callStack)) = Len(mgr.callStack)
    /\ mgr.callStack = Invoked(ctl)
    /\ ctl = << >> => mgr.callStack = << >> /\ \A u \in Upd : ~upd[u].computing

\* the function of a computed property has thrown, its Updatable has left
\* the stack, and the reaction that read it is still computing
StackDisciplineWitness ==
    /\ raising = "Error" /\ Len(mgr.callStack) = 1
    /\ mgr.callStack[1] \in Reactions
    /\ \E k \in CompKeys : hist.execs[k] > 0 /\ ~upd[k].valid

-----------------------------------------------------------------------------
(* C32 *)

\* delete $o.k has returned
DeletedAt == AtRest /\ hist.op.kind = "deleteAt"

\* what a read of key k returns on a record like o without own key k
Inherited(h, o, k) ==
    IF h.proto[o] = NoObj THEN Undef ELSE lookup(h, h.proto[o], k)

\* the valid Updatables whose most recent execution read key k through the
\* wrapper of o
Subscribers(o, k) ==
    {u \in Upd : /\ upd[u].fn # NoFn /\ hist.pre.valid[u]
                 /\ << o, k >> \in hist.pre.readsAt[u]}

\* the delete has invalidated the subscribers of the key
DeleteInvalidates ==
    DeletedAt => Subscribers(hist.pre.obj, hist.pre.key) \subseteq hist.opInval

\* C32 (delete): after delete wrapper[K] the source has no own key K, a read
\* of K returns what the source without own key K gives (the inherited value,
\* or undefined), and the subscribers of K are invalidated.
Deletes ==
    /\ DeletedAt =>
          /\ ~hasOwnProperty(heap, hist.pre.obj, hist.pre.key)
          /\ lookup(heap, hist.pre.obj, hist.pre.key)
                 = Inherited(heap, hist.pre.obj, hist.pre.key)
    /\ DeleteInvalidates

\* delete $c.a has returned, c had own key a, and a reaction that had read
\* $c.a was invalidated
DeletesWitness ==
    /\ DeletedAt /\ hist.pre.own
    /\ hist.pre.obj = "c" /\ hist.pre.key = "a"
    /\ Subscribers("c", "a") \cap Reactions # {}

-----------------------------------------------------------------------------
(* C33 *)

\* $o.k = v has returned
SetDone == AtRest /\ hist.op.kind = "setAt"

\* the record has the key set as an own key, with the value set
OwnValue ==
    /\ hasOwnProperty(heap, hist.pre.obj, hist.pre.key)
    /\ heap.own[hist.pre.obj][hist.pre.key] = hist.pre.val

\* the next operation is a set or a delete on another record
ElsewhereNext ==
    /\ hist'.budget < hist.budget
    /\ hist'.op.kind \in {"setAt", "deleteAt"}
    /\ hist'.pre.obj # hist.pre.obj

\* C33 (set stores): after wrapper[K] = v has returned the source has own key
\* K with value v, whether or not it inherited K with value v before, and a
\* set or delete on another record, a prototype included, does not change
\* what a read of K on the source returns.
SetStores ==
    /\ [](SetDone => OwnValue)
    /\ [][SetDone /\ ElsewhereNext =>
             lookup(heap', hist.pre.obj, hist.pre.key) = hist.pre.val]_vars

\* $c.a = 0 has returned: c inherited a = 1 and has own key a = 0 now
SetStoresWitness ==
    /\ SetDone /\ OwnValue
    /\ hist.pre.obj = "c" /\ hist.pre.key = "a"
    /\ ~hist.pre.own /\ hist.pre.old = 1 /\ hist.pre.val = 0

-----------------------------------------------------------------------------
(* C34 *)

\* C34 (deep walk): a read of wrapper[watchDeepKey] inside a derivation raises
\* nothing, whatever the own values of the source and of the records nested
\* in it are (numbers, null, functions, records, sequences), and the
\* derivation ends subscribed to the watch key of the source.
DeepCompletes ==
    \A u \in Upd, S \in Objs :
        DeepWatcher(u, S) =>
            /\ raising = "none"
            /\ AtRest /\ hist.execs[u] > 0 =>
                  /\ hist.err = "none"
                  /\ upd[u].valid => u \in Range(ListOf(St, S, watchKey))

\* the reaction () => $g.$$watchDeep has been executed on g.a = p, where p
\* has a function and a record as own values, and is valid
DeepCompletesWitness ==
    /\ AtRest /\ hist.err = "none"
    /\ heap.own["p"]["b"] = Callable /\ IsRef(heap.own["p"]["a"])
    /\ \E u \in Reactions : /\ DeepWatcher(u, "g") /\ hist.execs[u] > 0
                            /\ upd[u].valid
                            /\ u \in Range(ListOf(St, "p", watchKey))

====
